---- MODULE Spec2Model ----
(***************************************************************************)
(* Tintinnabuli Visualizer: the colour helpers and the palette extractor   *)
(* of utils.ts, the theme, playback and countdown state of App.tsx and the *)
(* redraw loop of components/Oscilloscope.tsx.                             *)
(*                                                                         *)
(* Conventions                                                             *)
(*  - A colour string is a sequence of one-character strings,              *)
(*    '#1a1a1a' is <<"#","1","a","1","a","1","a">>.                        *)
(*  - A JavaScript number that may carry a fraction (the channel values    *)
(*    inside adjustColor and the arguments of rgbToHex) is an integer      *)
(*    count of hundredths: 128 is 12800, 133.5 is 13350.  A double that    *)
(*    is not a whole number of hundredths is kept as the hundredths below  *)
(*    it, which leaves Math.round and the comparisons with whole numbers   *)
(*    what they are on the double.                                         *)
(*  - The products, quotients and sums of getHexLuminance and adjustColor  *)
(*    are computed as IEEE 754 doubles, rounding after every operation.    *)
(*  - null and undefined are the value NULL.                               *)
(***************************************************************************)
EXTENDS Integers, Sequences, FiniteSets, TLC

NULL == [null |-> TRUE]

Q == 100                       \* hundredths per unit
Num(n) == n * Q                \* the integer n as a JavaScript number

\* TRUE for every value; evaluating it evaluates v, so that a loop state is
\* computed before the next iterations run on it
Strict(v) == v = v

Min(a, b) == IF a < b THEN a ELSE b
Max(a, b) == IF a > b THEN a ELSE b

(***************************************************************************)
(* types.ts                                                                *)
(***************************************************************************)
DEFAULT_THEME ==
  [ background |-> <<"#","f","f","f","b","e","9">>,
    scope      |-> <<"#","1","a","1","a","1","a">>,
    text       |-> <<"#","1","a","1","a","1","a">>,
    tracks     |-> << <<"#","1","a","1","a","1","a">>,
                      <<"#","8","c","8","c","8","c">>,
                      <<"#","4","a","4","a","4","a">>,
                      <<"#","b","0","b","0","b","0">> >> ]

(***************************************************************************)
(* The double arithmetic of the colour helpers.  A double is [neg, mag]:   *)
(* its sign and its magnitude, the magnitude a whole number of units of    *)
(* 2^-64 written in LIMBS digits of base LIMB, lowest digit first.         *)
(***************************************************************************)
LIMB == 65536
LIMB_BITS == 16
LIMBS == 6
FRAC_LIMBS == 4
MANTISSA == 53

Abs(n) == IF n < 0 THEN -n ELSE n

\* digits that have left 0 .. LIMB - 1 brought back, the carries going up
RECURSIVE Carry(_, _, _)
Carry(a, i, c) ==
  IF i > LIMBS THEN <<>>
  ELSE LET t == a[i] + c IN <<t % LIMB>> \o Carry(a, i + 1, t \div LIMB)

\* bit pos of a magnitude, and whether a bit below pos is set
BitAt(a, pos) == (a[(pos \div LIMB_BITS) + 1] \div (2 ^ (pos % LIMB_BITS))) % 2
BitsBelow(a, pos) ==
  \/ \E i \in 1..(pos \div LIMB_BITS) : a[i] # 0
  \/ a[(pos \div LIMB_BITS) + 1] % (2 ^ (pos % LIMB_BITS)) # 0

\* the number of bits of a magnitude whose highest digit that is not 0 is
\* digit top
BitsUpTo(a, top) ==
  LIMB_BITS * (top - 1)
    + (CHOOSE k \in 1..LIMB_BITS : 2 ^ (k - 1) <= a[top] /\ a[top] < 2 ^ k)

\* the number of bits of a magnitude
BitLength(a) ==
  IF \A i \in 1..LIMBS : a[i] = 0 THEN 0
  ELSE BitsUpTo(a, CHOOSE i \in 1..LIMBS : a[i] # 0 /\ \A j \in (i + 1)..LIMBS : a[j] = 0)

\* the bits below the unit of digit w cleared, and one unit added if up
CutAt(a, w, unit, up) ==
  [ i \in 1..LIMBS |->
      IF i < w THEN 0
      ELSE IF i = w THEN a[i] - (a[i] % unit) + (IF up THEN unit ELSE 0)
      ELSE a[i] ]

\* the s lowest bits of a magnitude rounded away, to the nearest and on a
\* tie to the even one
RoundAway(a, sticky, s) ==
  IF s <= 0 THEN a
  ELSE Carry(CutAt(a, (s \div LIMB_BITS) + 1, 2 ^ (s % LIMB_BITS),
                   BitAt(a, s - 1) = 1
                     /\ (sticky \/ BitsBelow(a, s - 1) \/ BitAt(a, s) = 1)), 1, 0)

\* An exact magnitude rounded to 53 significant bits, to the nearest and on
\* a tie to the even one; sticky tells that the exact value has bits below
\* 2^-64.
RoundToDouble(a, sticky) == RoundAway(a, sticky, BitLength(a) - MANTISSA)

MagOfInt(n) == [ i \in 1..LIMBS |-> IF i = FRAC_LIMBS + 1 THEN n ELSE 0 ]

\* the double of a small integer
IntD(n) == [neg |-> n < 0, mag |-> MagOfInt(Abs(n))]

\* a < b on magnitudes
MagLess(a, b) ==
  \E i \in 1..LIMBS : a[i] < b[i] /\ \A j \in (i + 1)..LIMBS : a[j] = b[j]

\* long division of a magnitude by a small d, from digit i down:
\* <<quotient, remainder>>
RECURSIVE MagDiv(_, _, _, _)
MagDiv(a, d, i, rem) ==
  IF i = 0 THEN <<a, rem>>
  ELSE LET t == rem * LIMB + a[i]
       IN MagDiv([a EXCEPT ![i] = t \div d], d, i - 1, t % d)

\* n / d in doubles for small integers n and d > 0; also the double that the
\* decimal literal n/d is read as
DivD(n, d) ==
  LET qr == MagDiv(MagOfInt(Abs(n)), d, LIMBS, 0)
  IN [neg |-> n < 0, mag |-> RoundToDouble(qr[1], qr[2] # 0)]

\* k * x in doubles, k a small integer
MulD(k, x) ==
  [neg |-> (k < 0) # x.neg,
   mag |-> RoundToDouble(Carry([i \in 1..LIMBS |-> x.mag[i] * Abs(k)], 1, 0), FALSE)]

\* big + small in doubles for two numbers of opposite sign, the magnitude of
\* big not under that of small
SubD(big, small) ==
  [neg |-> big.neg,
   mag |-> RoundToDouble(Carry([i \in 1..LIMBS |-> big.mag[i] - small.mag[i]], 1, 0), FALSE)]

\* x + y in doubles
AddD(x, y) ==
  IF x.neg = y.neg
    THEN [neg |-> x.neg,
          mag |-> RoundToDouble(Carry([i \in 1..LIMBS |-> x.mag[i] + y.mag[i]], 1, 0), FALSE)]
  ELSE IF MagLess(x.mag, y.mag) THEN SubD(y, x) ELSE SubD(x, y)

\* Math.floor(x * scale) as an integer, scale a small positive integer: the
\* double x as a count of 1/scale
FloorScaled(x, scale) ==
  LET m == Carry([i \in 1..LIMBS |-> x.mag[i] * scale], 1, 0)
      whole == m[FRAC_LIMBS + 1] + LIMB * m[FRAC_LIMBS + 2]
      frac == \E i \in 1..FRAC_LIMBS : m[i] # 0
  IN IF x.neg THEN -whole - (IF frac THEN 1 ELSE 0) ELSE whole

(***************************************************************************)
(* utils.ts: colour helpers                                                *)
(***************************************************************************)
HexDigits == <<"0","1","2","3","4","5","6","7","8","9","a","b","c","d","e","f">>
UpperDigits == <<"0","1","2","3","4","5","6","7","8","9","A","B","C","D","E","F">>

\* the character class [a-f\d] under the i flag
IsHexChar(ch) == \E i \in 1..16 : HexDigits[i] = ch \/ UpperDigits[i] = ch

\* the value parseInt gives one hex digit
DigitVal(ch) == (CHOOSE i \in 1..16 : HexDigits[i] = ch \/ UpperDigits[i] = ch) - 1

\* parseInt(s, 16) of a two-character group
parseInt16(c1, c2) == 16 * DigitVal(c1) + DigitVal(c2)

\* Math.round of a number in hundredths: the nearest integer, halves go up
MathRound(q) == (q + (Q \div 2)) \div Q

\* n.toString(16).padStart(2, '0') for 0 <= n <= 255
toHex2(n) == << HexDigits[(n \div 16) + 1], HexDigits[(n % 16) + 1] >>

\* the pattern without its end anchor: whatever follows six digits is ignored
hexToRgbUnanchored(hex) ==
  LET body == IF Len(hex) > 0 /\ hex[1] = "#" THEN Tail(hex) ELSE hex
      matches == Len(body) >= 6 /\ \A i \in 1..6 : IsHexChar(body[i])
  IN IF matches
       THEN [ r |-> parseInt16(body[1], body[2]),
              g |-> parseInt16(body[3], body[4]),
              b |-> parseInt16(body[5], body[6]) ]
       ELSE NULL

hexToRgb(hex) ==
  LET body == IF Len(hex) > 0 /\ hex[1] = "#" THEN Tail(hex) ELSE hex
      matches == Len(body) = 6 /\ \A i \in 1..6 : IsHexChar(body[i])
  IN IF matches
       THEN [ r |-> parseInt16(body[1], body[2]),
              g |-> parseInt16(body[3], body[4]),
              b |-> parseInt16(body[5], body[6]) ]
       ELSE NULL

\* the clamp the mutant drops
rgbToHexNoClamp(r, g, b) ==
  <<"#">> \o toHex2(MathRound(r) % 256) \o toHex2(MathRound(g) % 256)
          \o toHex2(MathRound(b) % 256)

\* r, g, b in hundredths
rgbToHex(r, g, b) ==
  LET ch(x) == toHex2(Min(255, Max(0, MathRound(x))))
  IN <<"#">> \o ch(r) \o ch(g) \o ch(b)

LUM_SCALE == 10000

\* the literals 0.2126, 0.7152, 0.0722 and 1.5 as doubles
LUM_R == DivD(2126, LUM_SCALE)
LUM_G == DivD(7152, LUM_SCALE)
LUM_B == DivD(722, LUM_SCALE)
BRIGHTNESS_GAIN == DivD(15, 10)

\* 0.2126 * r + 0.7152 * g + 0.0722 * b in doubles, returned as the
\* ten-thousandths below it: the double is under 128 exactly when the
\* result is under 128 * LUM_SCALE
getHexLuminance(hex) ==
  LET rgb == hexToRgb(hex)
  IN IF rgb = NULL THEN 0
     ELSE FloorScaled(AddD(AddD(MulD(rgb.r, LUM_R), MulD(rgb.g, LUM_G)),
                           MulD(rgb.b, LUM_B)), LUM_SCALE)

IsDark(lum) == lum < 128 * LUM_SCALE

\* contrast centred one off
adjustColorOffCentre(hex, brightness, contrast) ==
  LET rgb == hexToRgb(hex)
      bFactor == MulD(brightness - 100, BRIGHTNESS_GAIN)
      cFactor == DivD(contrast, 100)
      adjust(val) ==
        FloorScaled(AddD(AddD(MulD(val - 127, cFactor), IntD(128)), bFactor), Q)
  IN IF rgb = NULL THEN hex
     ELSE rgbToHex(adjust(rgb.r), adjust(rgb.g), adjust(rgb.b))

\* brightness added before the contrast is applied
adjustColorBrightnessFirst(hex, brightness, contrast) ==
  LET rgb == hexToRgb(hex)
      bFactor == (brightness - 100) * 150
      adjust(val) == ((Num(val) + bFactor - Num(128)) * contrast) \div 100 + Num(128)
  IN IF rgb = NULL THEN hex
     ELSE rgbToHex(adjust(rgb.r), adjust(rgb.g), adjust(rgb.b))

\* bFactor = (brightness - 100) * 1.5, cFactor = contrast / 100 and
\* adjust(val) = ((val - 128) * cFactor + 128) + bFactor, each operation a
\* double; adjust hands rgbToHex the hundredths below the double
adjustColor(hex, brightness, contrast) ==
  LET rgb == hexToRgb(hex)
      bFactor == MulD(brightness - 100, BRIGHTNESS_GAIN)
      cFactor == DivD(contrast, 100)
      adjust(val) ==
        FloorScaled(AddD(AddD(MulD(val - 128, cFactor), IntD(128)), bFactor), Q)
  IN IF rgb = NULL THEN hex
     ELSE rgbToHex(adjust(rgb.r), adjust(rgb.g), adjust(rgb.b))

(***************************************************************************)
(* utils.ts: palette extractor                                             *)
(***************************************************************************)
CANVAS_W == 50
CANVAS_H == 50
BYTES_PER_PIXEL == 4
DataLength == CANVAS_W * CANVAS_H * BYTES_PER_PIXEL

\* An image source is a record [pat |-> a non-empty sequence of <<r, g, b>>]:
\* the picture drawn on the 50 x 50 canvas repeats pat in raster order.
\* getImageData(0, 0, 50, 50).data of that canvas: byte i, from 0
ImageData(imgSrc) ==
  [ i \in 0..(DataLength - 1) |->
      IF i % BYTES_PER_PIXEL = 3 THEN 255
      ELSE imgSrc.pat[((i \div BYTES_PER_PIXEL) % Len(imgSrc.pat)) + 1][(i % BYTES_PER_PIXEL) + 1] ]

\* What happens to the picture on the way to the canvas: it is read ("ok"),
\* img.onerror fires ("loadError"), getContext('2d') returns null
\* ("noContext"), or drawImage / getImageData throws inside img.onload
\* ("readThrows").
Fates == {"ok", "loadError", "noContext", "readThrows"}

\* The promise getPixelData returns.  An exception thrown inside the onload
\* handler is not caught by the promise executor, which has returned by then:
\* neither resolve nor reject is called and the promise stays pending.
getPixelData(imgSrc, fate) ==
  CASE fate = "ok"         -> [settled |-> "resolved", data |-> ImageData(imgSrc)]
    [] fate = "loadError"  -> [settled |-> "rejected"]
    [] fate = "noContext"  -> [settled |-> "rejected"]
    [] fate = "readThrows" -> [settled |-> "pending"]

\* Math.round(v / 10) * 10
Quantize(v) == MathRound(v * (Q \div 10)) * 10

\* one iteration of the dominant-colour loop, at byte offset i
DominantStep(data, i, st) ==
  LET key == << Quantize(data[i]), Quantize(data[i + 1]), Quantize(data[i + 2]) >>
      n == (IF key \in DOMAIN st.colorCounts THEN st.colorCounts[key] ELSE 0) + 1
      counts == (key :> n) @@ st.colorCounts
  IN IF n > st.maxCount
       THEN [ colorCounts |-> counts, maxCount |-> n,
              dominantColor |-> [r |-> data[i], g |-> data[i + 1], b |-> data[i + 2]] ]
       ELSE [ st EXCEPT !.colorCounts = counts ]

\* The iterations of the dominant-colour loop, "for (i = 0; i < data.length;
\* i += 4)", for the pixels lo .. hi - 1 in order, from loop state st.  The
\* range is run as its first half and then its second half, which keeps the
\* evaluation shallow.
RECURSIVE DominantRange(_, _, _, _)
DominantRange(data, lo, hi, st) ==
  IF hi <= lo THEN st
  ELSE IF hi = lo + 1 THEN DominantStep(data, lo * BYTES_PER_PIXEL, st)
  ELSE LET mid == (lo + hi) \div 2
           half == DominantRange(data, lo, mid, st)
       IN IF Strict(half) THEN DominantRange(data, mid, hi, half) ELSE half

DominantColor(data) ==
  DominantRange(data, 0, DataLength \div BYTES_PER_PIXEL,
                [ colorCounts |-> <<>>, maxCount |-> 0,
                  dominantColor |-> [r |-> 0, g |-> 0, b |-> 0] ]).dominantColor

ACCENT_STRIDE == 100
MAX_TRACKS == 5

Includes(list, x) == \E k \in 1..Len(list) : list[k] = x

\* one iteration of the accent loop, at byte offset i
PotentialStep(data, i, acc) ==
  LET hex == rgbToHex(Num(data[i]), Num(data[i + 1]), Num(data[i + 2]))
  IN IF Includes(acc, hex) THEN acc ELSE Append(acc, hex)

\* The iterations k = lo .. hi - 1 of "for (i = 0; i < data.length; i += 100)"
\* in order, i = 100 k, from the list acc; halved like DominantRange.
RECURSIVE PotentialRange(_, _, _, _)
PotentialRange(data, lo, hi, acc) ==
  IF hi <= lo THEN acc
  ELSE IF hi = lo + 1 THEN PotentialStep(data, lo * ACCENT_STRIDE, acc)
  ELSE LET mid == (lo + hi) \div 2
           half == PotentialRange(data, lo, mid, acc)
       IN IF Strict(half) THEN PotentialRange(data, mid, hi, half) ELSE half

\* potentialColors after the loop: the distinct hex values in order
PotentialColors(data) ==
  PotentialRange(data, 0, (DataLength + ACCENT_STRIDE - 1) \div ACCENT_STRIDE, <<>>)

\* list.map(f)
RECURSIVE MapAdjust(_, _, _)
MapAdjust(list, brightness, contrast) ==
  IF list = <<>> THEN <<>>
  ELSE <<adjustColor(Head(list), brightness, contrast)>>
         \o MapAdjust(Tail(list), brightness, contrast)

\* list.slice(0, n)
Slice0(list, n) == SubSeq(list, 1, Min(n, Len(list)))

WHITE == <<"#","f","f","f","f","f","f">>
BLACK == <<"#","0","0","0","0","0","0">>

\* the try block of generateThemeFromImage once the pixel data is there
ThemeFromData(data, brightness, contrast) ==
  LET dominantColor == DominantColor(data)
      rawBgHex == rgbToHex(Num(dominantColor.r), Num(dominantColor.g), Num(dominantColor.b))
      bgHex == adjustColor(rawBgHex, brightness, contrast)
      potentialColors == PotentialColors(data)
      isDarkBg == IsDark(getHexLuminance(bgHex))
      filteredTracks0 ==
        Slice0(MapAdjust(potentialColors, IF isDarkBg THEN 150 ELSE 50, contrast), MAX_TRACKS)
      filteredTracks ==
        IF Len(filteredTracks0) < 2
          THEN Append(filteredTracks0, IF isDarkBg THEN WHITE ELSE BLACK)
          ELSE filteredTracks0
  IN [ background |-> bgHex, scope |-> filteredTracks[1],
       text |-> filteredTracks[1], tracks |-> filteredTracks ]

\* generateThemeFromImage without the early return on a missing image: the
\* default theme goes through the brightness/contrast adjustment
generateThemeFromImageAdjusted(imgSrc, brightness, contrast, fate) ==
  IF imgSrc = NULL
    THEN [ settled |-> "resolved",
           value |-> [ DEFAULT_THEME EXCEPT
                         !.background = adjustColor(@, brightness, contrast) ] ]
  ELSE LET p == getPixelData(imgSrc, fate)
       IN CASE p.settled = "resolved" ->
                 [settled |-> "resolved", value |-> ThemeFromData(p.data, brightness, contrast)]
            [] p.settled = "rejected" ->
                 [settled |-> "resolved", value |-> DEFAULT_THEME]
            [] p.settled = "pending" ->
                 [settled |-> "pending"]

\* The promise generateThemeFromImage returns, as [settled, value]: imgSrc is
\* NULL or an image source, fate what happens to the picture in getPixelData.
generateThemeFromImage(imgSrc, brightness, contrast, fate) ==
  IF imgSrc = NULL THEN [settled |-> "resolved", value |-> DEFAULT_THEME]
  ELSE LET p == getPixelData(imgSrc, fate)
       IN CASE p.settled = "resolved" ->
                 [settled |-> "resolved", value |-> ThemeFromData(p.data, brightness, contrast)]
            [] p.settled = "rejected" ->
                 [settled |-> "resolved", value |-> DEFAULT_THEME]
            [] p.settled = "pending" ->
                 [settled |-> "pending"]

(***************************************************************************)
(* Inputs                                                                  *)
(***************************************************************************)
MaxPat == 2                    \* longest pixel pattern of an enumerated picture
MaxRequests == 3               \* extractions started in one run

\* pixel colours: two dark neighbours that share one quantized bucket, and a
\* light one
PixelColours == { <<101, 101, 101>>, <<102, 102, 102>>, <<240, 230, 220>> }

RECURSIVE SeqsOfLen(_, _)
SeqsOfLen(S, n) ==
  IF n = 0 THEN { <<>> }
  ELSE { Append(q, x) : q \in SeqsOfLen(S, n - 1), x \in S }

\* seven colours, so that the accent scan meets more than MAX_TRACKS of them
SevenTone ==
  [ pat |-> << <<0, 0, 0>>, <<250, 0, 0>>, <<0, 250, 0>>, <<0, 0, 250>>,
               <<250, 250, 0>>, <<250, 250, 250>>, <<90, 90, 90>> >> ]

\* two buckets with the same number of pixels: the bucket met first is not
\* the one that gets to each count first
TiedTone ==
  [ pat |-> << <<101, 101, 101>>, <<240, 230, 220>>, <<240, 230, 220>>, <<101, 101, 101>> >> ]

\* pictures of one colour: the luminance of the first is 128 as a real number
\* and below 128 as the sum of doubles; a channel of the second lands next
\* to a half at brightness 89 and contrast 109
RoundedTones == { [pat |-> << <<12, 175, 4>> >>], [pat |-> << <<28, 28, 28>> >>] }

Images ==
  { [pat |-> q] : q \in UNION { SeqsOfLen(PixelColours, n) : n \in 1..MaxPat } }
    \cup { SevenTone, TiedTone } \cup RoundedTones

Brightnesses == {0, 100, 200}
Contrasts == {50, 100, 200}

\* channel values handed to rgbToHex by the round trip
ChannelInts == {-300, -1, 0, 1, 15, 16, 128, 255, 256, 1000}

(***************************************************************************)
(* State                                                                   *)
(***************************************************************************)
VARIABLES
  fnOp,            \* the pure function under call: its name
  fnArgs,          \* its arguments
  fnDone,          \* TRUE once it has returned
  fnRet,           \* what it returned
  fnPrev,          \* the arguments of the call whose result fnArgs holds
  imageSrc,        \* App: useState imageSrc (NULL or an image source)
  settings,        \* App: useState settings, the theme fields
  generatedTheme,  \* App: useState generatedTheme
  rendered,        \* App: the theme part of the last render
  inflight,        \* ids of the generateThemeFromImage promises not settled yet
  issued,          \* the promises in the order the effect created them
  osc,             \* one Oscilloscope instance: props, refs, pending frames
  app,             \* App: playback and countdown state, refs, audio, callbacks
  midi             \* App: useState notes and the MIDI files being read

fnVars == <<fnOp, fnArgs, fnDone, fnRet, fnPrev>>
themeVars == <<imageSrc, settings, generatedTheme, rendered, inflight, issued>>
vars == <<fnVars, themeVars, osc, app, midi>>

FnIdle ==
  /\ fnOp = "none" /\ fnArgs = <<>> /\ fnDone = FALSE /\ fnRet = NULL /\ fnPrev = <<>>

\* useMemo with generatedTheme missing from its dependencies
activeThemeByModeOnly(prev, st, gen) ==
  IF prev # NULL /\ prev.settings.themeMode = st.themeMode
    THEN prev.activeTheme
    ELSE IF st.themeMode = "image" THEN gen ELSE DEFAULT_THEME

\* useMemo(() => ..., [settings.themeMode, generatedTheme]) in a render with
\* the hook values src, st and gen: the value of the render before, prev, is
\* kept while the two dependencies are the same (prev is NULL in the first
\* render)
activeTheme(prev, st, gen) ==
  IF prev # NULL /\ prev.settings.themeMode = st.themeMode /\ prev.generatedTheme = gen
    THEN prev.activeTheme
    ELSE IF st.themeMode = "image" THEN gen ELSE DEFAULT_THEME

\* One render of App, theme part: the hook values it read, the value of
\* useMemo, and what it hands down from that value: the palette and the
\* background of PianoRoll, the colour and the background of Oscilloscope,
\* the colour of the title and the background of the page.
AppView(prev, src, st, gen) ==
  LET theme == activeTheme(prev, st, gen)
  IN [ imageSrc |-> src, settings |-> st, generatedTheme |-> gen,
       activeTheme |-> theme,
       pianoRoll |-> [palette |-> theme.tracks, backgroundColor |-> theme.background],
       oscilloscope |-> [color |-> theme.scope, backgroundColor |-> theme.background],
       title |-> theme.text,
       page |-> theme.background ]

FirstSettings == [themeMode |-> "normal", themeBrightness |-> 100, themeContrast |-> 100]

\* App.tsx after the first render, theme part
ThemeInit ==
  /\ imageSrc = NULL
  /\ settings = FirstSettings
  /\ generatedTheme = DEFAULT_THEME
  /\ rendered = AppView(NULL, NULL, FirstSettings, DEFAULT_THEME)
  /\ inflight = {}
  /\ issued = <<>>

(***************************************************************************)
(* Pure functions under call                                               *)
(***************************************************************************)
FnInit ==
  /\ fnDone = FALSE /\ fnRet = NULL /\ fnPrev = <<>>
  /\ \/ /\ fnOp = "rgbToHex"
        /\ fnArgs \in { <<r, g, b>> : r \in ChannelInts, g \in ChannelInts, b \in ChannelInts }
     \/ /\ fnOp = "generateThemeFromImage"
        /\ fnArgs \in { <<i, b, c, f>> : i \in Images \cup {NULL}, b \in Brightnesses,
                                         c \in Contrasts, f \in Fates }
                      \cup { <<i, 89, 109, f>> : i \in RoundedTones, f \in Fates }

CallRgbToHex ==
  /\ fnOp = "rgbToHex" /\ ~fnDone
  /\ fnRet' = rgbToHex(Num(fnArgs[1]), Num(fnArgs[2]), Num(fnArgs[3]))
  /\ fnDone' = TRUE
  /\ UNCHANGED <<fnOp, fnArgs, fnPrev, themeVars, osc, app, midi>>

\* hexToRgb on the string the finished rgbToHex call returned
CallHexToRgbOnResult ==
  /\ fnOp = "rgbToHex" /\ fnDone
  /\ fnOp' = "hexToRgb"
  /\ fnPrev' = fnArgs
  /\ fnArgs' = <<fnRet>>
  /\ fnRet' = hexToRgb(fnRet)
  /\ fnDone' = TRUE
  /\ UNCHANGED <<themeVars, osc, app, midi>>

CallGenerateTheme ==
  /\ fnOp = "generateThemeFromImage" /\ ~fnDone
  /\ fnRet' = generateThemeFromImage(fnArgs[1], fnArgs[2], fnArgs[3], fnArgs[4])
  /\ fnDone' = TRUE
  /\ UNCHANGED <<fnOp, fnArgs, fnPrev, themeVars, osc, app, midi>>

FnNext == CallRgbToHex \/ CallHexToRgbOnResult \/ CallGenerateTheme

InitFn == FnInit /\ ThemeInit /\ osc = NULL /\ app = NULL /\ midi = NULL

SpecFn == InitFn /\ [][FnNext]_vars

(***************************************************************************)
(* utils.ts: the colour helpers under call                                 *)
(***************************************************************************)
\* channel values of the colours the calls are given
ByteSamples == {0, 1, 15, 16, 100, 127, 128, 255}

\* two digits of n from one of the two digit tables
Hex2(n, digits) == << digits[(n \div 16) + 1], digits[(n % 16) + 1] >>

\* colours on which a double of the helpers is not the exact value: the
\* luminance sum of the first is just under 128, and at brightness 89 and
\* contrast 109 a channel of the second is just under 2.5
RoundedHex == { <<"#","0","c","a","f","0","4">>, <<"#","1","c","1","c","1","c">> }

\* the strings hexToRgb is documented to accept: six hex digits, in lower
\* or upper case, with or without the leading '#', and one of mixed case
ValidHex ==
  { prefix \o Hex2(r, digits) \o Hex2(g, digits) \o Hex2(b, digits) :
      prefix \in { <<>>, <<"#">> }, digits \in {HexDigits, UpperDigits},
      r \in ByteSamples, g \in ByteSamples, b \in ByteSamples }
  \cup { <<"#","a","B","c","D","e","F">> }
  \cup RoundedHex

\* strings of other formats
MalformedHex ==
  { <<>>,
    <<"#">>,
    <<"#","f","f","f">>,
    <<"#","1","2","3","4","5">>,
    <<"#","1","2","3","4","5","6","7">>,
    <<"1","2","3","4","5","6","7">>,
    <<"#","g","0","0","0","0","0">>,
    <<"#","#","0","0","0","0","0","0">>,
    <<"0","0","0","#","0","0","0">>,
    <<" ","#","0","0","0","0","0","0">>,
    <<"#","0","0","0","0","0","0"," ">>,
    <<"0","x","f","f","f","f","f","f">>,
    <<"r","e","d">> }

HexInputs == ValidHex \cup MalformedHex

\* slider values: multiples of 50, for which the doubles of adjustColor are
\* exact, and two for which they are not
ColourBrightnesses == {0, 50, 89, 100, 150, 200}
ColourContrasts == {0, 50, 100, 109, 150, 200}

ColourInit ==
  /\ fnDone = FALSE /\ fnRet = NULL /\ fnPrev = <<>>
  /\ \/ /\ fnOp = "adjustColor"
        /\ fnArgs \in { <<h, b, c>> : h \in HexInputs, b \in ColourBrightnesses,
                                      c \in ColourContrasts }
     \/ /\ fnOp \in {"getHexLuminance", "hexToRgb"}
        /\ fnArgs \in { <<h>> : h \in HexInputs }

CallAdjustColor ==
  /\ fnOp = "adjustColor" /\ ~fnDone
  /\ fnRet' = adjustColor(fnArgs[1], fnArgs[2], fnArgs[3])
  /\ fnDone' = TRUE
  /\ UNCHANGED <<fnOp, fnArgs, fnPrev, themeVars, osc, app, midi>>

CallHexToRgb ==
  /\ fnOp = "hexToRgb" /\ ~fnDone
  /\ fnRet' = hexToRgb(fnArgs[1])
  /\ fnDone' = TRUE
  /\ UNCHANGED <<fnOp, fnArgs, fnPrev, themeVars, osc, app, midi>>

CallGetHexLuminance ==
  /\ fnOp = "getHexLuminance" /\ ~fnDone
  /\ fnRet' = getHexLuminance(fnArgs[1])
  /\ fnDone' = TRUE
  /\ UNCHANGED <<fnOp, fnArgs, fnPrev, themeVars, osc, app, midi>>

\* the colour rgb with channel ch one higher
Raised(rgb, ch) == [rgb EXCEPT ![ch] = @ + 1]

\* a second call of getHexLuminance, on the colour the first call was given
\* with one channel raised by 1; fnPrev keeps the first call
CallLuminanceOfRaised(ch) ==
  /\ fnOp = "getHexLuminance" /\ fnDone /\ fnPrev = <<>>
  /\ LET rgb == hexToRgb(fnArgs[1])
     IN /\ rgb # NULL
        /\ rgb[ch] < 255
        /\ LET up == Raised(rgb, ch)
               hex == rgbToHex(Num(up.r), Num(up.g), Num(up.b))
           IN /\ fnPrev' = <<rgb, ch, fnRet>>
              /\ fnArgs' = <<hex>>
              /\ fnRet' = getHexLuminance(hex)
  /\ UNCHANGED <<fnOp, fnDone, themeVars, osc, app, midi>>

ColourNext ==
  \/ CallAdjustColor
  \/ CallHexToRgb
  \/ CallGetHexLuminance
  \/ \E ch \in {"r", "g", "b"} : CallLuminanceOfRaised(ch)

InitColour == ColourInit /\ ThemeInit /\ osc = NULL /\ app = NULL /\ midi = NULL

SpecColour == InitColour /\ [][ColourNext]_vars

(***************************************************************************)
(* utils.ts: drawPianoRoll                                                 *)
(***************************************************************************)
\* Times are hundredths of a second and pixel positions hundredths of a
\* pixel; the times drawn are multiples of a quarter second and the widths
\* multiples of 10, for which the double arithmetic of the source is exact.
MaxNotes == 2                  \* notes of an enumerated list

MISSING == [missing |-> TRUE]  \* an optional field that is absent

TIME_WINDOW == 10
MIN_NOTE == 21
HUGE == 1000000000             \* a very large track or channel number

\* "n.track || 0": absent and 0 both give 0
OrZero(v) == IF v = MISSING THEN 0 ELSE v.n

\* an index computed per field: the sum of two remainders
NoteColorIdxPerField(n, palette) ==
  (OrZero(n.track) % Len(palette)) + (OrZero(n.channel) % Len(palette))

\* "discriminator % palette.length"
NoteColorIdx(n, palette) ==
  (OrZero(n.track) + OrZero(n.channel)) % Len(palette)

\* the end of the note excluded
IsActiveEndExcluded(n, currentTime) ==
  currentTime >= n.startTime /\ currentTime < n.startTime + n.duration

\* "currentTime >= n.startTime && currentTime <= n.startTime + n.duration"
IsActive(n, currentTime) ==
  currentTime >= n.startTime /\ currentTime <= n.startTime + n.duration

PX_PER_SEC(width) == width \div TIME_WINDOW
PLAYHEAD_X(width) == 25 * width              \* width * 0.25, in hundredths

\* notes moving away from the playhead to the right
NoteXReversed(n, currentTime, width) ==
  PLAYHEAD_X(width) - (n.startTime - currentTime) * PX_PER_SEC(width)

\* "PLAYHEAD_X + relativeTime * PX_PER_SEC", in hundredths of a pixel
NoteX(n, currentTime, width) ==
  PLAYHEAD_X(width) + (n.startTime - currentTime) * PX_PER_SEC(width)

\* "Math.max(n.duration * PX_PER_SEC, 3)"
NoteW(n, width) == Max(n.duration * PX_PER_SEC(width), Num(3))

\* only what lies on the canvas is painted
NoteVisibleOnCanvas(x, w, width) == x + w > 0 /\ x < Num(width)

\* "x + w > -100 && x < width + 100"
NoteVisible(x, w, width) == x + w > Num(-100) /\ x < Num(width) + Num(100)

\* "palette[colorIdx]": an index outside the array gives undefined
UNDEFINED == <<"undefined">>
ArrayAt(array, index) ==
  IF index + 1 \in DOMAIN array THEN array[index + 1] ELSE UNDEFINED

\* what one visible note paints: the rectangle (its left edge and width; row
\* counts the key rows from the bottom, y = height - (row + 1) * NOTE_HEIGHT),
\* the fill style and the shadow
PaintNote(n, i, currentTime, palette, isDarkBg, width) ==
  LET x == NoteX(n, currentTime, width)
      w == NoteW(n, width)
      colorIdx == NoteColorIdx(n, palette)
      fillStyle == ArrayAt(palette, colorIdx)
  IN IF IsActive(n, currentTime)
       THEN [ i |-> i, x |-> x, colorIdx |-> colorIdx, row |-> n.note - MIN_NOTE,
              rectX |-> x - Num(1), rectW |-> w + Num(2),
              fillStyle |-> IF isDarkBg THEN WHITE ELSE fillStyle,
              shadowColor |-> fillStyle, shadowBlur |-> 15 ]
       ELSE [ i |-> i, x |-> x, colorIdx |-> colorIdx, row |-> n.note - MIN_NOTE,
              rectX |-> x, rectW |-> w,
              fillStyle |-> fillStyle,
              shadowColor |-> IF isDarkBg THEN "rgba(0,0,0,0.5)" ELSE "rgba(0,0,0,0.1)",
              shadowBlur |-> 4 ]

RECURSIVE PaintNotes(_, _, _, _, _, _)
PaintNotes(notes, i, currentTime, palette, isDarkBg, width) ==
  IF i > Len(notes) THEN <<>>
  ELSE LET n == notes[i]
           rest == PaintNotes(notes, i + 1, currentTime, palette, isDarkBg, width)
       IN IF NoteVisible(NoteX(n, currentTime, width), NoteW(n, width), width)
            THEN <<PaintNote(n, i, currentTime, palette, isDarkBg, width)>> \o rest
            ELSE rest

\* the picture one call leaves: the background, the playhead line and the
\* rectangles of the visible notes in the order of the list
drawPianoRoll(notes, currentTime, palette, backgroundColor, width, height) ==
  LET isDarkBg == IsDark(getHexLuminance(backgroundColor))
  IN [ background |-> backgroundColor,
       playhead |-> [ x |-> PLAYHEAD_X(width),
                      strokeStyle |-> IF isDarkBg THEN "rgba(255,255,255,0.4)"
                                      ELSE "rgba(0,0,0,0.3)" ],
       rects |-> PaintNotes(notes, 1, currentTime, palette, isDarkBg, width) ]

\* inputs of drawPianoRoll
Present(v) == [n |-> v]

NoteSamples ==
  { [ note |-> 60, velocity |-> 100, startTime |-> 0, duration |-> 100,
      track |-> Present(0), channel |-> Present(0) ],
    [ note |-> 72, velocity |-> 90, startTime |-> 100, duration |-> 50,
      track |-> Present(2), channel |-> Present(5) ],
    [ note |-> 40, velocity |-> 70, startTime |-> 50, duration |-> 0,
      track |-> MISSING, channel |-> Present(9) ],
    [ note |-> 21, velocity |-> 70, startTime |-> 100, duration |-> 100,
      track |-> Present(HUGE), channel |-> Present(HUGE) ],
    [ note |-> 108, velocity |-> 1, startTime |-> 200, duration |-> 25,
      track |-> Present(3), channel |-> MISSING ],
    [ note |-> 64, velocity |-> 127, startTime |-> 1500, duration |-> 100,
      track |-> MISSING, channel |-> MISSING ] }

RollNotes == UNION { SeqsOfLen(NoteSamples, n) : n \in 1..MaxNotes }

\* palettes of one, three and four colours
RollPalettes ==
  { <<BLACK>>,
    <<WHITE, BLACK, <<"#","9","3","9","3","9","3">> >>,
    DEFAULT_THEME.tracks }

RollBackgrounds == { DEFAULT_THEME.background, <<"#","1","0","1","0","2","0">> }

\* the canvas sizes of the two layouts
RollSizes == { <<2560, 2160>>, <<1080, 2400>> }

\* a canvas of a size other than the two of App, on which whole hundredths
\* of a second bring a note to the edge of the margin
RollOtherSizes == { <<1000, 1000>> }

\* playback times of the frames
RollTimes == {-50, 0, 50, 100, 125, 200, 500}

RollInit ==
  /\ fnOp = "drawPianoRoll"
  /\ fnDone = FALSE /\ fnRet = NULL /\ fnPrev = <<>>
  /\ fnArgs \in [ notes : RollNotes, currentTime : {0}, palette : RollPalettes,
                  backgroundColor : RollBackgrounds, size : RollSizes ]
                \cup
                [ notes : RollNotes, currentTime : {0}, palette : {DEFAULT_THEME.tracks},
                  backgroundColor : {DEFAULT_THEME.background}, size : RollOtherSizes ]

\* one frame: the component calls drawPianoRoll with the playback time of
\* the frame; fnPrev keeps the time and the picture of the frame before
DrawPianoRollFrame(t) ==
  /\ fnOp = "drawPianoRoll"
  /\ fnPrev' = IF fnDone THEN <<fnArgs.currentTime, fnRet>> ELSE <<>>
  /\ fnArgs' = [fnArgs EXCEPT !.currentTime = t]
  /\ fnRet' = drawPianoRoll(fnArgs.notes, t, fnArgs.palette,
                            fnArgs.backgroundColor, fnArgs.size[1], fnArgs.size[2])
  /\ fnDone' = TRUE
  /\ UNCHANGED <<fnOp, themeVars, osc, app, midi>>

RollNext == \E t \in RollTimes : DrawPianoRollFrame(t)

InitRoll == RollInit /\ ThemeInit /\ osc = NULL /\ app = NULL /\ midi = NULL

SpecRoll == InitRoll /\ [][RollNext]_vars

(***************************************************************************)
(* utils.ts: drawOscilloscope                                              *)
(*                                                                         *)
(* Coordinates are counted in 1/SUBPIXEL of a pixel.  frequencyBinCount    *)
(* is a power of two up to SUBPIXEL, so width / bufferLength, its sums and *)
(* dataArray[i] / 128 * height / 2 are exact in doubles and exact here.    *)
(* The canvas is what can be seen on it: its background and the paths      *)
(* stroked over it since.                                                  *)
(***************************************************************************)
SUBPIXEL == 1024

\* an AnalyserNode: frequencyBinCount and what getByteTimeDomainData writes
Silence(n) == [i \in 1..n |-> 128]
SquareWave(n) == [i \in 1..n |-> IF ((i - 1) \div 4) % 2 = 0 THEN 255 ELSE 0]
RampWave(n) == [i \in 1..n |-> ((i - 1) * 255) \div (n - 1)]

Analysers ==
  { [frequencyBinCount |-> 16, timeDomain |-> Silence(16)],
    [frequencyBinCount |-> 16, timeDomain |-> SquareWave(16)],
    [frequencyBinCount |-> 1024, timeDomain |-> RampWave(1024)] }

\* ctx.fillStyle = backgroundColor; ctx.fillRect(0, 0, width, height), which
\* leaves the path list as it was
fillRectKeepsPaths(canvas, backgroundColor, width, height) ==
  [canvas EXCEPT !.background = backgroundColor]

\* ctx.fillStyle = backgroundColor; ctx.fillRect(0, 0, width, height): the
\* rectangle is the whole canvas, nothing drawn before can be seen after
fillRect(canvas, backgroundColor, width, height) ==
  [canvas EXCEPT !.background = backgroundColor, !.paths = <<>>]

\* beginPath ... stroke with strokeStyle = color and lineWidth = 2
stroke(canvas, color, points) ==
  [canvas EXCEPT !.paths = Append(@, [strokeStyle |-> color, lineWidth |-> 2,
                                      points |-> points])]

\* the points of the waveform: sample i at x = i * sliceWidth,
\* y = dataArray[i] / 128 * height / 2, then the closing lineTo
WavePoints(dataArray, bufferLength, width, height) ==
  [ i \in 1..(bufferLength + 1) |->
      IF i <= bufferLength
      THEN << (i - 1) * ((width * SUBPIXEL) \div bufferLength),
              (dataArray[i] * height * SUBPIXEL) \div 256 >>
      ELSE << width * SUBPIXEL, (height * SUBPIXEL) \div 2 >> ]

\* drawOscilloscope(ctx, analyser, isPlaying, color, backgroundColor, width,
\* height): the canvas after the call, and whether the call read samples
drawOscilloscope(canvas, analyser, isPlaying, color, backgroundColor, width, height) ==
  LET cleared == fillRect(canvas, backgroundColor, width, height) IN
  IF analyser = NULL \/ ~isPlaying
  THEN [ canvas |-> stroke(cleared, color,
                           << <<0, (height * SUBPIXEL) \div 2>>,
                              <<width * SUBPIXEL, (height * SUBPIXEL) \div 2>> >>),
         sampled |-> FALSE ]
  ELSE [ canvas |-> stroke(cleared, color,
                           WavePoints(analyser.timeDomain, analyser.frequencyBinCount,
                                      width, height)),
         sampled |-> TRUE ]

\* the canvas sizes of the two layouts
ScopeSizes == { <<1280, 1080>>, <<1080, 800>> }

ScopeColors == { DEFAULT_THEME.scope, WHITE }

ScopeBackgrounds == { DEFAULT_THEME.background, BLACK }

\* a canvas nothing was drawn on
BlankCanvas == [background |-> NULL, paths |-> <<>>]

ScopeInit ==
  /\ fnOp = "drawOscilloscope"
  /\ fnDone = FALSE /\ fnPrev = <<>>
  /\ fnRet = [canvas |-> BlankCanvas, sampled |-> FALSE]
  /\ fnArgs \in [ analyser : {NULL}, isPlaying : {FALSE}, color : ScopeColors,
                  backgroundColor : ScopeBackgrounds, size : ScopeSizes ]

\* one draw call on the canvas the call before left; fnPrev keeps that canvas
DrawScope(analyser, isPlaying, color, backgroundColor) ==
  /\ fnOp = "drawOscilloscope"
  /\ fnPrev' = <<fnRet.canvas>>
  /\ fnArgs' = [fnArgs EXCEPT !.analyser = analyser, !.isPlaying = isPlaying,
                              !.color = color, !.backgroundColor = backgroundColor]
  /\ fnRet' = drawOscilloscope(fnRet.canvas, analyser, isPlaying, color,
                               backgroundColor, fnArgs.size[1], fnArgs.size[2])
  /\ fnDone' = TRUE
  /\ UNCHANGED <<fnOp, themeVars, osc, app, midi>>

\* a draw call of a component without an audio source
DrawScopeDetached ==
  \E p \in BOOLEAN, c \in ScopeColors, b \in ScopeBackgrounds :
    DrawScope(NULL, p, c, b)

\* a draw call of a component with an audio source
DrawScopeAttached ==
  \E a \in Analysers, p \in BOOLEAN, c \in ScopeColors, b \in ScopeBackgrounds :
    DrawScope(a, p, c, b)

ScopeNext == DrawScopeDetached \/ DrawScopeAttached

InitScope == ScopeInit /\ ThemeInit /\ osc = NULL /\ app = NULL /\ midi = NULL

SpecScope == InitScope /\ [][ScopeNext]_vars

(***************************************************************************)
(* App.tsx: theme                                                          *)
(***************************************************************************)
\* the files the user may pick as cover art
CoverFiles ==
  { [pat |-> << <<101, 101, 101>> >>],
    [pat |-> << <<240, 230, 220>>, <<102, 102, 102>> >>] }

\* generateThemeFromImage on the inputs the application can hand it, computed
\* once
Extraction ==
  [ src \in CoverFiles, b \in Brightnesses, c \in Contrasts, fate \in Fates |->
      generateThemeFromImage(src, b, c, fate) ]

\* a publication that overwrites the background only and keeps the rest
setGeneratedThemePartial(prev, value) == [prev EXCEPT !.background = value.background]

\* .then(setGeneratedTheme): the state after the setter ran with value
setGeneratedTheme(prev, value) == value

\* useEffect [imageSrc, themeBrightness, themeContrast], run with the values
\* of the render that follows a change of one of them: the promise it
\* creates, appended to issued; fate is what will happen to the picture
ThemeEffect(src, brightness, contrast, fate) ==
  IF src # NULL
    THEN /\ Len(issued) < MaxRequests
         /\ issued' = Append(issued, Extraction[src, brightness, contrast, fate])
         /\ inflight' = inflight \cup {Len(issued) + 1}
    ELSE UNCHANGED <<issued, inflight>>

\* The controls on the page and the closures of their handlers are those of
\* the last render.  React renders the updates of a click or of a change
\* event, and runs the effects of that render, before the browser does
\* anything else; the render takes every update that is queued, also the
\* theme a promise has set in the meantime.
ThemeCommit ==
  rendered' = AppView(rendered, imageSrc', settings', generatedTheme')

\* handleImageUpload with a file chosen; createObjectURL gives a fresh URL on
\* every upload, so the effect runs even for a file chosen before
handleImageUpload(file) ==
  /\ imageSrc' = file
  /\ settings' = [settings EXCEPT !.themeMode = "image"]
  /\ \E fate \in Fates :
       ThemeEffect(file, settings'.themeBrightness, settings'.themeContrast, fate)
  /\ generatedTheme' = generatedTheme
  /\ ThemeCommit
  /\ UNCHANGED <<fnVars, osc, app, midi>>

\* handleImageUpload when the dialog was closed without a file
handleImageUploadNoFile ==
  /\ UNCHANGED vars

\* the two theme buttons, From Cover never disabled
SetThemeModeEnabled(mode) ==
  /\ settings' = [rendered.settings EXCEPT !.themeMode = mode]
  /\ UNCHANGED <<imageSrc, generatedTheme>>
  /\ ThemeCommit
  /\ UNCHANGED <<inflight, issued, fnVars, osc, app, midi>>

\* the Default button, and the From Cover button, disabled without an image:
\* setSettings({...settings, themeMode})
SetThemeMode(mode) ==
  /\ mode = "image" => rendered.imageSrc # NULL
  /\ settings' = [rendered.settings EXCEPT !.themeMode = mode]
  /\ UNCHANGED <<imageSrc, generatedTheme>>
  /\ ThemeCommit
  /\ UNCHANGED <<inflight, issued, fnVars, osc, app, midi>>

\* the Bright slider, rendered in mode 'image' only
SetBrightness(v) ==
  /\ rendered.settings.themeMode = "image"
  /\ v # rendered.settings.themeBrightness
  /\ settings' = [rendered.settings EXCEPT !.themeBrightness = v]
  /\ \E fate \in Fates : ThemeEffect(imageSrc, v, settings'.themeContrast, fate)
  /\ UNCHANGED <<imageSrc, generatedTheme>>
  /\ ThemeCommit
  /\ UNCHANGED <<fnVars, osc, app, midi>>

\* the Contrast slider, rendered in mode 'image' only
SetContrast(v) ==
  /\ rendered.settings.themeMode = "image"
  /\ v # rendered.settings.themeContrast
  /\ settings' = [rendered.settings EXCEPT !.themeContrast = v]
  /\ \E fate \in Fates : ThemeEffect(imageSrc, settings'.themeBrightness, v, fate)
  /\ UNCHANGED <<imageSrc, generatedTheme>>
  /\ ThemeCommit
  /\ UNCHANGED <<fnVars, osc, app, midi>>

\* a promise of generateThemeFromImage resolves and its then-callback runs;
\* the promises settle in any order.  The callback runs outside any event
\* of the page: the update waits for a render.
SettleExtraction(id) ==
  /\ id \in inflight
  /\ issued[id].settled = "resolved"
  /\ generatedTheme' = setGeneratedTheme(generatedTheme, issued[id].value)
  /\ inflight' = inflight \ {id}
  /\ UNCHANGED <<imageSrc, settings, rendered, issued, fnVars, osc, app, midi>>

\* React renders the theme a promise has set; none of the dependencies of
\* the extraction effect has changed, so that effect does not run
ThemeRender ==
  /\ generatedTheme # rendered.generatedTheme
  /\ UNCHANGED <<imageSrc, settings, generatedTheme>>
  /\ ThemeCommit
  /\ UNCHANGED <<inflight, issued, fnVars, osc, app, midi>>

ThemeNext ==
  \/ \E file \in CoverFiles : handleImageUpload(file)
  \/ handleImageUploadNoFile
  \/ \E mode \in {"normal", "image"} : SetThemeMode(mode)
  \/ \E v \in Brightnesses : SetBrightness(v)
  \/ \E v \in Contrasts : SetContrast(v)
  \/ \E id \in 1..MaxRequests : SettleExtraction(id)
  \/ ThemeRender

InitTheme == FnIdle /\ ThemeInit /\ osc = NULL /\ app = NULL /\ midi = NULL

SpecTheme == InitTheme /\ [][ThemeNext]_vars

(***************************************************************************)
(* Frame callbacks (requestAnimationFrame / cancelAnimationFrame)          *)
(***************************************************************************)
MaxOscCommits == 3             \* renders of one run that change the props

\* A pending callback is a record with an id; ids are positive.  A new id is
\* one that no pending callback has and that the ref does not hold.
FreshFrameId(pending, ref) ==
  CHOOSE i \in 1..(Cardinality(pending) + 2) :
    i # ref /\ \A cb \in pending : cb.id # i

\* the ids the bounded runs can hand out
FrameIds == 1..(MaxOscCommits + 2)

cancelAnimationFrame(pending, id) == { cb \in pending : cb.id # id }

(***************************************************************************)
(* components/Oscilloscope.tsx                                             *)
(***************************************************************************)

\* the props the parent may hand down: the analyser is null until the audio
\* context exists and playback needs it; colours and sizes are those of two
\* themes and of the two layouts
OscProps ==
  { p \in [ analyser : {NULL, [node |-> "AnalyserNode"]},
            isPlaying : BOOLEAN,
            color : {DEFAULT_THEME.scope, WHITE},
            backgroundColor : {DEFAULT_THEME.background, BLACK},
            size : { <<1280, 1080>>, <<1080, 800>> } ] :
      p.isPlaying => p.analyser # NULL }

FirstOscProps ==
  [ analyser |-> NULL, isPlaying |-> FALSE, color |-> DEFAULT_THEME.scope,
    backgroundColor |-> DEFAULT_THEME.background, size |-> <<1280, 1080>> ]

\* The first instance, mounted, its first effect not yet run: hasCtx tells
\* whether canvas.getContext('2d') gives a context.  reqIdRef 0 is undefined.
\* canvas numbers the canvas elements; raf is the browser's set of pending
\* frame callbacks; loop counts the draw loops started, drew is the last
\* draw and staleDraw records a draw by a loop that was not the newest.
\* old is the instance a commit has unmounted, until its cleanup has run:
\* its canvas, its reqIdRef and whether it registered a cleanup.
OscFirst(hasCtx) ==
  [ mounted |-> TRUE, hasCtx |-> hasCtx, props |-> FirstOscProps,
    due |-> "effect", cleanup |-> FALSE, reqIdRef |-> 0, canvas |-> 1,
    old |-> NULL,
    raf |-> {}, loop |-> 0, drew |-> NULL, staleDraw |-> FALSE, commits |-> 0 ]

OscIdle == osc = OscFirst(TRUE)

OscInit == \E hasCtx \in BOOLEAN : osc = OscFirst(hasCtx)

\* a cleanup that leaves the pending frame alone
OscCleanupKeeps(o) == o

\* the function the effect returned: "if (reqIdRef.current)
\* cancelAnimationFrame(reqIdRef.current)"
OscCleanup(o) ==
  IF o.reqIdRef # 0
    THEN [o EXCEPT !.raf = cancelAnimationFrame(o.raf, o.reqIdRef)]
    ELSE o

\* draw(), run by loop number loop whose closure holds props: it schedules
\* itself first, keeping the id in the reqIdRef of its own instance, and
\* then calls drawOscilloscope
OscDraw(o, loop, canvas, props, byFrame) ==
  LET id == FreshFrameId(o.raf, o.reqIdRef)
      cb == [id |-> id, loop |-> loop, canvas |-> canvas, props |-> props]
  IN [ o EXCEPT !.raf = @ \cup {cb},
                !.reqIdRef = IF canvas = o.canvas THEN id ELSE @,
                !.old = IF @ # NULL /\ canvas # o.canvas /\ canvas = @.canvas
                          THEN [@ EXCEPT !.reqIdRef = id] ELSE @,
                !.drew = [loop |-> loop, props |-> props, byFrame |-> byFrame],
                !.staleDraw = @ \/ loop # o.loop ]

\* the effect body with the props of the last render; without a context it
\* returns early and registers no cleanup
OscEffectBody(o) ==
  IF ~o.hasCtx THEN [o EXCEPT !.cleanup = FALSE]
  ELSE LET started == [o EXCEPT !.loop = @ + 1, !.cleanup = TRUE]
       IN OscDraw(started, started.loop, o.canvas, o.props, FALSE)

\* the cleanup of the instance the last commit unmounted, run on its own
\* reqIdRef
OscCleanupOld(o) ==
  IF o.old = NULL THEN o
  ELSE IF ~o.old.cleanup THEN [o EXCEPT !.old = NULL]
  ELSE [ OscCleanup([o EXCEPT !.reqIdRef = o.old.reqIdRef])
           EXCEPT !.reqIdRef = o.reqIdRef, !.old = NULL ]

\* React runs the passive effects of the last commit: the cleanup of an
\* unmounted instance, then the cleanup of the previous run of the effect,
\* if it registered one, and then the body
OscFlush(o) ==
  IF o.due = "none" THEN o
  ELSE LET gone == OscCleanupOld(o)
           cleaned == IF gone.cleanup THEN OscCleanup(gone) ELSE gone
       IN OscEffectBody([cleaned EXCEPT !.due = "none"])

OscRunEffects ==
  /\ osc.due # "none"
  /\ osc' = OscFlush(osc)
  /\ UNCHANGED <<fnVars, themeVars, app, midi>>

\* the parent renders with props that differ in a dependency; effects still
\* pending from the commit before run first
OscPropsChange(props) ==
  /\ osc.mounted
  /\ props # osc.props
  /\ osc.commits < MaxOscCommits
  /\ osc' = [ OscFlush(osc) EXCEPT !.props = props, !.due = "effect",
                                   !.commits = @ + 1 ]
  /\ UNCHANGED <<fnVars, themeVars, app, midi>>

\* The layout changes, by a click on one of the two layout buttons: the
\* <Oscilloscope> of the other branch is another element of the tree, so
\* one commit unmounts this instance and mounts a new one, with its own
\* canvas and refs.  The commit is that of a click: its passive effects,
\* the cleanup of the old instance on its own reqIdRef and the body of the
\* new one, run before the browser does anything else.
OscRemount(props, hasCtx) ==
  /\ osc.mounted
  /\ osc.commits < MaxOscCommits
  /\ LET o == OscFlush(osc)
     IN osc' = OscFlush([ o EXCEPT !.hasCtx = hasCtx, !.props = props,
                                   !.due = "effect", !.cleanup = FALSE,
                                   !.reqIdRef = 0,
                                   !.canvas = @ + 1, !.commits = @ + 1,
                                   !.old = [ canvas |-> o.canvas,
                                             reqIdRef |-> o.reqIdRef,
                                             cleanup |-> o.cleanup ] ])
  /\ UNCHANGED <<fnVars, themeVars, app, midi>>

\* the browser runs a pending frame callback
OscFrame(id) ==
  \E cb \in osc.raf :
  /\ cb.id = id
  /\ osc' = OscDraw([osc EXCEPT !.raf = @ \ {cb}], cb.loop, cb.canvas, cb.props, TRUE)
  /\ UNCHANGED <<fnVars, themeVars, app, midi>>

OscNext ==
  \/ OscRunEffects
  \/ \E props \in OscProps : OscPropsChange(props)
  \/ \E props \in OscProps, hasCtx \in BOOLEAN : OscRemount(props, hasCtx)
  \/ \E id \in FrameIds : OscFrame(id)

AppIdle == app = NULL

InitOsc == FnIdle /\ ThemeInit /\ OscInit /\ AppIdle /\ midi = NULL

SpecOsc == InitOsc /\ [][OscNext]_vars


(***************************************************************************)
(* App.tsx: playback, countdown and the time loop                          *)
(***************************************************************************)
MaxClock == 2                  \* the audio clock runs from 0 to MaxClock
MaxSources == 2                \* buffer sources created in one run
MaxLoads == 2                  \* audio files chosen in one run
MaxResumes == 2                \* resume() promises pending at once

\* The state hooks as one render sees them.  audioBuffer and sourceNode are
\* 0 for null and the number of the buffer or source node otherwise.
FirstAppState ==
  [ isPlaying |-> FALSE, isCountingDown |-> FALSE, countdown |-> 3,
    audioBuffer |-> 0, sourceNode |-> 0, currentTime |-> 0, startTime |-> 0,
    startOffset |-> 0, showSettings |-> FALSE ]

\* App once the audio context exists.  s is the state of the last render,
\* whose closures the handlers and effects hold; q is s with the updates
\* that are queued and not rendered yet; due names the passive effects of
\* the last commit that have not run.  timer is the countdown value the
\* pending timeout will set, -1 without a timeout.  resumeQ and decodeQ hold
\* the state captured by continuations that wait for resume() and for
\* decodeAudioData(), decodeQ with the number of the file.  now is
\* audioContext.currentTime, sounding the source nodes started and not
\* stopped.  playback, paused, stopped and pub record
\* the last start, pause, stop and publication for the properties; cdStopped
\* tells that Stop was pressed during the countdown that was accepted last,
\* cdStart records the last start that the countdown effect made, resumed
\* the start that a press of Play after a pause made and the first time
\* published after it.
AppFirst(ctxState) ==
  [ s |-> FirstAppState, q |-> FirstAppState, due |-> {},
    reqIdRef |-> 0, raf |-> {}, timer |-> -1,
    resumeQ |-> <<>>, decodeQ |-> <<>>, loads |-> 0,
    ctxState |-> ctxState, now |-> 0, nSources |-> 0, sounding |-> {},
    playback |-> NULL, paused |-> NULL, stopped |-> FALSE, pub |-> NULL,
    cdStopped |-> FALSE, cdStart |-> NULL, resumed |-> NULL ]

AppInit == \E ctxState \in {"suspended", "running"} : app = AppFirst(ctxState)

StopNode(sounding, node) == IF node # 0 THEN sounding \ {node} ELSE sounding

\* startPlayback as the render c closed over it; it neither resumes the
\* context nor reads its state
startPlayback(a, c) ==
  IF c.audioBuffer = 0 THEN a
  ELSE LET src == a.nSources + 1
       IN [ a EXCEPT !.sounding = StopNode(@, c.sourceNode) \cup {src},
                     !.nSources = src,
                     !.q.sourceNode = src,
                     !.q.startTime = a.now,
                     !.q.isPlaying = TRUE,
                     !.playback = [start |-> a.now, offset |-> c.startOffset],
                     !.paused = NULL,
                     !.stopped = FALSE,
                     !.resumed = NULL ]

\* the record of a start that a press of Play after a pause made: the
\* offset the pause stored, the offset the source was started at and the
\* time on display; first is the first time published afterwards
Resumption(a, c, started) ==
  IF started.nSources = a.nSources \/ a.paused = NULL THEN started
  ELSE [ started EXCEPT !.resumed = [ stored |-> a.paused.offset,
                                      offset |-> c.startOffset,
                                      shown |-> c.currentTime,
                                      first |-> NULL ] ]

\* handlePlayPause after the optional await, as the render c closed over it
PlayPauseBody(a, c) ==
  IF c.isPlaying
    THEN [ a EXCEPT !.sounding = StopNode(@, c.sourceNode),
                    !.q.startOffset = c.currentTime,
                    !.q.isPlaying = FALSE,
                    !.paused = [at |-> a.q.currentTime, offset |-> c.currentTime],
                    !.resumed = NULL ]
    ELSE startPlayback(a, c)

handleDelayedStart(a, c) ==
  IF c.isPlaying THEN a
  ELSE [ a EXCEPT !.q.countdown = 3,
                  !.q.isCountingDown = TRUE,
                  !.q.showSettings = FALSE,
                  !.stopped = FALSE,
                  !.cdStopped = FALSE ]

handleStop(a, c) ==
  [ a EXCEPT !.sounding = StopNode(@, c.sourceNode),
             !.q.isPlaying = FALSE,
             !.q.isCountingDown = FALSE,
             !.q.startOffset = 0,
             !.q.currentTime = 0,
             !.paused = NULL,
             !.stopped = TRUE,
             !.resumed = NULL ]

\* what the formula of the clock gives for the playback that was started
\* last
ExpectedTime(a) ==
  IF a.playback = NULL THEN 0
  ELSE (a.now - a.playback.start) + a.playback.offset

\* updateTime of the render that cb closed over: in that render isPlaying
\* was true and audioContext was set, so the guard passes
updateTime(a, cb) ==
  LET trackTime == (a.now - cb.startTime) + cb.startOffset
      rest == a.raf \ {cb}
      id == FreshFrameId(rest, cb.id)
  IN [ a EXCEPT !.q.currentTime = trackTime,
                !.raf = rest \cup {[cb EXCEPT !.id = id]},
                !.reqIdRef = id,
                !.pub = [ value |-> trackTime, expected |-> ExpectedTime(a),
                          playing |-> a.q.isPlaying ],
                !.resumed = IF a.resumed # NULL /\ a.resumed.first = NULL
                              THEN [a.resumed EXCEPT !.first = [t |-> trackTime]]
                              ELSE a.resumed ]

\* useEffect(..., [isPlaying]) of the last render
TimeEffect(a) ==
  IF a.s.isPlaying
    THEN LET id == FreshFrameId(a.raf, a.reqIdRef)
             cb == [ id |-> id, startTime |-> a.s.startTime,
                     startOffset |-> a.s.startOffset ]
         IN [a EXCEPT !.raf = @ \cup {cb}, !.reqIdRef = id]
    ELSE IF a.reqIdRef # 0
      THEN [a EXCEPT !.raf = cancelAnimationFrame(@, a.reqIdRef)]
      ELSE a

\* useEffect(..., [isCountingDown, countdown]) of the last render: the
\* cleanup of the run before clears its timeout, then the body runs
CountdownEffect(a) ==
  LET cleared == [a EXCEPT !.timer = -1]
  IN IF a.s.isCountingDown /\ a.s.countdown > 0
       THEN [cleared EXCEPT !.timer = a.s.countdown - 1]
     ELSE IF a.s.isCountingDown /\ a.s.countdown = 0
       THEN LET started == startPlayback([cleared EXCEPT !.q.isCountingDown = FALSE], a.s)
            IN [started EXCEPT !.cdStart = [ countdown |-> a.s.countdown,
                                             counting |-> started.q.isCountingDown,
                                             sounds |-> started.nSources # a.nSources,
                                             afterStop |-> a.cdStopped ]]
     ELSE cleared

\* React runs the passive effects that are due, in the order of declaration
FlushEffects(a) ==
  LET t == IF "isPlaying" \in a.due THEN TimeEffect(a) ELSE a
      c == IF "countdown" \in a.due THEN CountdownEffect(t) ELSE t
  IN [c EXCEPT !.due = {}]

\* the effects whose dependencies differ between two renders
DueAfter(old, new) ==
  (IF old.isPlaying # new.isPlaying THEN {"isPlaying"} ELSE {})
  \cup (IF old.isCountingDown # new.isCountingDown \/ old.countdown # new.countdown
          THEN {"countdown"} ELSE {})

\* a render: effects still pending run first, then the queued updates are
\* committed
Render(a) ==
  LET f == FlushEffects(a)
  IN [f EXCEPT !.s = f.q, !.due = DueAfter(f.s, f.q)]

\* the updates of a click handler are rendered, and their effects run,
\* before the browser does anything else
Discrete(a) == FlushEffects(Render(a))

\* React after a click whose handler, a closure of the last render, has
\* turned a into b; set tells that the handler called a state setter.
\* A handler that called none schedules nothing: the pending effects stay
\* pending.  After a setter React makes a render pass, also when the
\* setter was handed the value the last render has and passive effects of
\* the last commit are pending: they run first, inside the click.  With
\* nothing queued, nothing changed and nothing pending the pass leaves
\* everything as it is.
Clicked(a, b, set) ==
  IF set THEN Discrete(b) ELSE b

\* The runs followed stay within the bounds: the step that would make one
\* source node, one waiting handler or one audio file more than the bound,
\* or take the audio clock past it, is not followed.
WithinBounds(a) ==
  /\ a.nSources <= MaxSources
  /\ Len(a.resumeQ) <= MaxResumes
  /\ a.loads <= MaxLoads
  /\ a.now <= MaxClock

\* The buttons on the page and the closures of their handlers are those of
\* the last render, app.s.  A click may come while updates are queued
\* (app.q differs from app.s: a frame, a timeout or a promise continuation
\* has set state and React has not rendered yet) or while passive effects
\* are pending; the render that the click causes takes every queued update.

\* the state variables that handlePlayPause with startPlayback, and
\* handleStop, read
PlayPauseReads == {"isPlaying", "sourceNode", "currentTime", "audioBuffer", "startOffset"}
StopReads == {"sourceNode"}

\* what a continuation keeps of the render c it was made in: the variables
\* its handler reads
Captured(c, reads) == [ f \in reads |-> c[f] ]

\* handlePlayPause of the render c calls a state setter: in its pause
\* branch, and in startPlayback past the guard on the audio buffer
PlayPauseSets(c) == c.isPlaying \/ c.audioBuffer # 0

\* the Play / Pause button: with a suspended context the handler waits for
\* resume() and its continuation runs later
PlayPauseClick ==
  /\ app.s.showSettings
  /\ IF app.ctxState = "suspended"
       THEN app' = [app EXCEPT !.resumeQ = Append(@, Captured(app.s, PlayPauseReads))]
       ELSE app' = Clicked(app, Resumption(app, app.s, PlayPauseBody(app, app.s)),
                           PlayPauseSets(app.s))
  /\ WithinBounds(app')
  /\ UNCHANGED <<fnVars, themeVars, osc, midi>>

RECURSIVE Continue(_, _)
Continue(a, closures) ==
  IF closures = <<>> THEN a
  ELSE Continue(PlayPauseBody(a, Head(closures)), Tail(closures))

\* resume() settles: the context runs and the waiting handlers continue,
\* one after the other, before anything else happens
ResumeSettles ==
  /\ app.resumeQ # <<>>
  /\ app' = Continue([app EXCEPT !.ctxState = "running", !.resumeQ = <<>>],
                     app.resumeQ)
  /\ WithinBounds(app')
  /\ UNCHANGED <<fnVars, themeVars, osc, midi>>

\* the Start 3s button, disabled while playing; pressed during a countdown
\* it sets the countdown back to 3 and brings no further start
DelayedStartClick ==
  /\ app.s.showSettings
  /\ ~app.s.isPlaying
  /\ app' = Clicked(app, handleDelayedStart(app, app.s), TRUE)
  /\ WithinBounds(app')
  /\ UNCHANGED <<fnVars, themeVars, osc, midi>>

StopClick ==
  /\ app.s.showSettings
  /\ app' = Clicked(app, handleStop([app EXCEPT !.cdStopped = @ \/ app.s.isCountingDown],
                                    app.s), TRUE)
  /\ WithinBounds(app')
  /\ UNCHANGED <<fnVars, themeVars, osc, midi>>

\* the gear button; the countdown overlay lies over it and leaves it to the
\* keyboard
SettingsClick ==
  /\ app' = Clicked(app, [app EXCEPT !.q.showSettings = ~app.s.showSettings], TRUE)
  /\ WithinBounds(app')
  /\ UNCHANGED <<fnVars, themeVars, osc, midi>>

\* an audio file is chosen: reading and decoding start, the continuation
\* holds the handleStop of this render; the files are numbered as chosen
AudioFileChosen ==
  /\ app.s.showSettings
  /\ app' = [app EXCEPT !.decodeQ = Append(@, [ file |-> app.loads + 1,
                                                c |-> Captured(app.s, StopReads) ]),
                        !.loads = @ + 1]
  /\ WithinBounds(app')
  /\ UNCHANGED <<fnVars, themeVars, osc, midi>>

\* a list without its entry k
Without(list, k) == SubSeq(list, 1, k - 1) \o SubSeq(list, k + 1, Len(list))

\* "d => { setAudioBuffer(d); handleStop(); }" for the decoding at place k
\* of those under way: the promise chains of two files are independent and
\* settle in any order
DecodeSettles(k) ==
  /\ k <= Len(app.decodeQ)
  /\ LET e == app.decodeQ[k]
         loaded == [app EXCEPT !.decodeQ = Without(@, k),
                               !.q.audioBuffer = e.file]
     IN app' = handleStop(loaded, e.c)
  /\ UNCHANGED <<fnVars, themeVars, osc, midi>>

\* decodeAudioData rejects, the bytes being no audio: the chain has no catch
\* and nothing changes
DecodeRejects(k) ==
  /\ k <= Len(app.decodeQ)
  /\ app' = [app EXCEPT !.decodeQ = Without(@, k)]
  /\ UNCHANGED <<fnVars, themeVars, osc, midi>>

\* "() => setCountdown(countdown - 1)"
TimerFires ==
  /\ app.timer # -1
  /\ app' = [app EXCEPT !.q.countdown = app.timer, !.timer = -1]
  /\ UNCHANGED <<fnVars, themeVars, osc, midi>>

\* the browser runs the pending updateTime
AppFrame(id) ==
  \E cb \in app.raf :
  /\ cb.id = id
  /\ app' = updateTime(app, cb)
  /\ UNCHANGED <<fnVars, themeVars, osc, midi>>

\* React renders the updates queued outside click handlers
AppRender ==
  /\ app.q # app.s
  /\ app' = Render(app)
  /\ WithinBounds(app')
  /\ UNCHANGED <<fnVars, themeVars, osc, midi>>

\* React runs the passive effects of the last commit
AppRunEffects ==
  /\ app.due # {}
  /\ app' = FlushEffects(app)
  /\ WithinBounds(app')
  /\ UNCHANGED <<fnVars, themeVars, osc, midi>>

\* The autoplay policy leaves a context made before the first click
\* suspended.  Once a source was started on it, which only follows a click,
\* the browser may set it running by itself: some do at start(), some
\* later, some never.  While handlers wait for resume() the start of the
\* context settles their promises: that step is ResumeSettles.
ContextStarts ==
  /\ app.ctxState = "suspended"
  /\ app.nSources > 0
  /\ app.resumeQ = <<>>
  /\ app' = [app EXCEPT !.ctxState = "running"]
  /\ UNCHANGED <<fnVars, themeVars, osc, midi>>

\* the audio clock advances while the context runs
ClockTick ==
  /\ app.ctxState = "running"
  /\ app' = [app EXCEPT !.now = @ + 1]
  /\ WithinBounds(app')
  /\ UNCHANGED <<fnVars, themeVars, osc, midi>>

PlayNext ==
  \/ PlayPauseClick
  \/ ResumeSettles
  \/ DelayedStartClick
  \/ StopClick
  \/ SettingsClick
  \/ AudioFileChosen
  \/ \E k \in 1..MaxLoads : DecodeSettles(k)
  \/ \E k \in 1..MaxLoads : DecodeRejects(k)
  \/ TimerFires
  \/ \E id \in FrameIds : AppFrame(id)
  \/ AppRender
  \/ AppRunEffects
  \/ ContextStarts
  \/ ClockTick

InitPlay == FnIdle /\ ThemeInit /\ osc = NULL /\ AppInit /\ midi = NULL

SpecPlay == InitPlay /\ [][PlayNext]_vars

(***************************************************************************)
(* utils.ts: parseMidi, generateMockNotes; App.tsx: the note list          *)
(*                                                                         *)
(* Times and durations are counted in hundredths of a second, velocities   *)
(* in hundredths.                                                          *)
(***************************************************************************)
\* the number of notes generateMockNotes makes (200 in the source)
MaxMock == 3

\* the arrayBuffer() promises one run starts
MaxReads == 2

\* what Math.random() gives for the note of a melody note and its duration,
\* for the note of an accompaniment note, and for the step to the next note
MockMelody == { [note |-> 89, duration |-> 69] }
MockBass == { 40 }
MockSteps == { 20, 59 }

\* the note generateMockNotes pushes at a time, by the draw of isMelody
MockNotesAt(time) ==
  { [note |-> m.note, velocity |-> 9000, startTime |-> time,
     duration |-> m.duration, track |-> 1, channel |-> 1] : m \in MockMelody }
  \cup
  { [note |-> b, velocity |-> 7000, startTime |-> time,
     duration |-> 80, track |-> 0, channel |-> 0] : b \in MockBass }

\* the loop of generateMockNotes from iteration i on: the lists it can push
RECURSIVE MockFrom(_, _)
MockFrom(i, time) ==
  IF i >= MaxMock THEN { <<>> }
  ELSE UNION { { <<n>> \o rest : rest \in MockFrom(i + 1, time + step) } :
               n \in MockNotesAt(time), step \in MockSteps }

\* generateMockNotes(): the lists it can return
generateMockNotes == MockFrom(0, 0)

\* the notes of one track as parseMidi pushes them
TrackNotes(track, trackIndex) ==
  [ k \in 1..Len(track.notes) |->
      [ note      |-> track.notes[k].midi,
        velocity  |-> track.notes[k].velocity * 127,
        startTime |-> track.notes[k].time,
        duration  |-> track.notes[k].duration,
        track     |-> trackIndex,
        channel   |-> IF track.notes[k].channel # MISSING
                      THEN track.notes[k].channel.n
                      ELSE OrZero(track.channel) ] ]

\* midi.tracks.forEach: allNotes after the tracks from index i on
RECURSIVE AllNotesFrom(_, _)
AllNotesFrom(tracks, i) ==
  IF i > Len(tracks) THEN <<>>
  ELSE TrackNotes(tracks[i], i - 1) \o AllNotesFrom(tracks, i + 1)

\* a note put into a list sorted by startTime, after the notes that do not
\* start later
InsertByStartTime(sorted, n) ==
  LET at == Cardinality({ k \in 1..Len(sorted) : sorted[k].startTime <= n.startTime })
  IN  SubSeq(sorted, 1, at) \o <<n>> \o SubSeq(sorted, at + 1, Len(sorted))

\* allNotes.sort that leaves the list in the order of the tracks
SortByStartTimeNot(allNotes) == allNotes

\* allNotes.sort((a, b) => a.startTime - b.startTime): a stable sort
RECURSIVE SortByStartTime(_)
SortByStartTime(allNotes) ==
  IF allNotes = <<>> THEN <<>>
  ELSE InsertByStartTime(SortByStartTime(SubSeq(allNotes, 1, Len(allNotes) - 1)),
                         allNotes[Len(allNotes)])

\* parseMidi(arrayBuffer): the lists it can return.  new Midi throws on
\* data that is not a MIDI file, and the catch returns generateMockNotes()
parseMidi(arrayBuffer) ==
  IF ~arrayBuffer.valid THEN generateMockNotes
  ELSE { SortByStartTime(AllNotesFrom(arrayBuffer.tracks, 1)) }

\* a note of a MIDI file as @tonejs/midi gives it
MidiNote(midiNo, time, duration) ==
  [midi |-> midiNo, velocity |-> 50, time |-> time, duration |-> duration,
   channel |-> MISSING]

\* the files the user may choose as MIDI
MidiFiles ==
  { [valid |-> FALSE, tracks |-> <<>>],
    [valid |-> TRUE, tracks |-> <<>>],
    [valid |-> TRUE, tracks |->
       << [channel |-> Present(0),
           notes |-> << MidiNote(60, 0, 50), MidiNote(62, 100, 50) >>] >>],
    [valid |-> TRUE, tracks |->
       << [channel |-> Present(0),
           notes |-> << MidiNote(60, 0, 50), MidiNote(64, 100, 50) >>],
          [channel |-> MISSING,
           notes |-> << [MidiNote(48, 50, 100) EXCEPT !.channel = Present(9)],
                        MidiNote(52, 100, 100) >>] >>],
    [valid |-> TRUE, tracks |->
       << [channel |-> Present(3),
           notes |-> << MidiNote(72, 200, 25), MidiNote(60, 0, 25) >>] >>] }

\* App on mount: useState(generateMockNotes())
\*   notes     the note list
\*   reads     the arrayBuffer() promises not settled yet
\*   nReads    how many were started
\*   chosen    the file of the promise that settled last, NULL before
\*   returned  what parseMidi returned for it, NULL before and after a
\*             failed read
MidiFirst(mock) ==
  [ notes |-> mock, reads |-> {}, nReads |-> 0, chosen |-> NULL, returned |-> NULL ]

MidiInit == midi \in { MidiFirst(mock) : mock \in generateMockNotes }

\* MIDI input onChange with a file: f.arrayBuffer() is started
MidiFileChosen ==
  /\ midi.nReads < MaxReads
  /\ \E f \in MidiFiles :
       midi' = [midi EXCEPT !.nReads = @ + 1,
                            !.reads = @ \cup { [id |-> midi.nReads + 1, file |-> f] }]
  /\ UNCHANGED <<fnVars, themeVars, osc, app>>

\* .then(b => setNotes(parseMidi(b))) of one promise, in any order
MidiReadSettles ==
  /\ \E r \in midi.reads : \E parsed \in parseMidi(r.file) :
       midi' = [midi EXCEPT !.reads = @ \ {r}, !.notes = parsed,
                            !.chosen = r.file, !.returned = parsed]
  /\ UNCHANGED <<fnVars, themeVars, osc, app>>

\* f.arrayBuffer() rejects: the callback is not called
MidiReadFails ==
  /\ \E r \in midi.reads :
       midi' = [midi EXCEPT !.reads = @ \ {r}]
  /\ UNCHANGED <<fnVars, themeVars, osc, app>>

MidiNext ==
  \/ MidiFileChosen
  \/ MidiReadSettles
  \/ MidiReadFails

InitMidi == FnIdle /\ ThemeInit /\ osc = NULL /\ app = NULL /\ MidiInit

SpecMidi == InitMidi /\ [][MidiNext]_vars

(***************************************************************************)
(* Properties                                                              *)
(***************************************************************************)
Resolved(i) == i \in 1..Len(issued) /\ i \notin inflight /\ issued[i].settled = "resolved"

\* C1 (as claimed): once every started extraction has completed, and there
\* were at least two, the derived theme is the result of the one started
\* last, whatever the order of completion.
C1_LaterRequestWins ==
  (Len(issued) >= 2 /\ inflight = {}) => generatedTheme = issued[Len(issued)].value

\* what the last render handed to PianoRoll, to Oscilloscope, to the title
\* and to the page is, field by field, the theme given
HandedDown(theme) ==
  /\ rendered.pianoRoll = [palette |-> theme.tracks, backgroundColor |-> theme.background]
  /\ rendered.oscilloscope = [color |-> theme.scope, backgroundColor |-> theme.background]
  /\ rendered.title = theme.text
  /\ rendered.page = theme.background

\* C6: what the renderers hold (the palette and the background of
\* PianoRoll, the colour and the background of Oscilloscope, the colour of
\* the title, the background of the page, as the last render handed them
\* down) is DEFAULT_THEME or, whole, the value one completed extraction
\* resolved with; the fields never come from two extractions.  The same
\* holds of the derived theme that waits for its render.
C6_ThemePublishedWhole ==
  /\ \/ HandedDown(DEFAULT_THEME)
     \/ \E i \in 1..Len(issued) : Resolved(i) /\ HandedDown(issued[i].value)
  /\ \/ generatedTheme = DEFAULT_THEME
     \/ \E i \in 1..Len(issued) : Resolved(i) /\ generatedTheme = issued[i].value

\* the renderers hold the theme of one extraction, rendered in mode
\* 'image', while the result of another extraction, with another background
\* and other tracks, has been set and waits for its render
C6_Witness ==
  /\ rendered.settings.themeMode = "image"
  /\ rendered.generatedTheme # DEFAULT_THEME
  /\ HandedDown(rendered.generatedTheme)
  /\ generatedTheme # rendered.generatedTheme
  /\ generatedTheme.background # rendered.pianoRoll.backgroundColor
  /\ generatedTheme.tracks # rendered.pianoRoll.palette
  /\ \E i, j \in 1..Len(issued) :
       /\ Resolved(i) /\ Resolved(j)
       /\ issued[i].value = generatedTheme
       /\ issued[j].value = rendered.generatedTheme

GenCall == fnOp = "generateThemeFromImage" /\ fnDone

\* the value 0.2126 r + 0.7152 g + 0.0722 b itself, in ten-thousandths
ExactLuminance(rgb) == 2126 * rgb.r + 7152 * rgb.g + 722 * rgb.b

\* a colour whose luminance, as that value, is below 128
DarkByValue(hex) == ExactLuminance(hexToRgb(hex)) < 128 * LUM_SCALE

\* the accent colours the scan of the picture found, before adjustment
AccentsFound(imgSrc) == PotentialColors(ImageData(imgSrc))

\* C7: every call of generateThemeFromImage that does not end in a read
\* that throws, the call without an image and the calls whose picture fails
\* to load included, resolves with a theme of at least two tracks; when the
\* scan found fewer than two accent colours the second track is '#ffffff'
\* on a dark background, one of luminance below 128, and '#000000' on a
\* light one.
C7_TracksAtLeastTwo ==
  (GenCall /\ (fnArgs[1] = NULL \/ fnArgs[4] # "readThrows")) =>
     /\ fnRet.settled = "resolved"
     /\ Len(fnRet.value.tracks) >= 2
     /\ (fnArgs[1] # NULL /\ fnArgs[4] = "ok" /\ Len(AccentsFound(fnArgs[1])) < 2) =>
          /\ Len(fnRet.value.tracks) = 2
          /\ fnRet.value.tracks[2] =
               IF DarkByValue(fnRet.value.background) THEN WHITE ELSE BLACK

\* C8: without an image generateThemeFromImage resolves with DEFAULT_THEME,
\* unchanged, for every brightness and contrast.
C8_NoImageGivesDefault ==
  (GenCall /\ fnArgs[1] = NULL) =>
     fnRet = [settled |-> "resolved", value |-> DEFAULT_THEME]

\* the call without an image returned, at a brightness and a contrast that
\* would change a colour
C8_Witness ==
  /\ GenCall /\ fnArgs[1] = NULL
  /\ fnArgs[2] = 200 /\ fnArgs[3] = 50
  /\ fnRet.settled = "resolved"

\* C9 (as claimed): whenever the picture cannot be decoded or read (load
\* error, no 2D context, a read that throws) generateThemeFromImage resolves
\* with DEFAULT_THEME.
C9_FailureGivesDefault ==
  (GenCall /\ fnArgs[1] # NULL /\ fnArgs[4] # "ok") =>
     fnRet = [settled |-> "resolved", value |-> DEFAULT_THEME]

Clamp255(x) == IF x < 0 THEN 0 ELSE IF x > 255 THEN 255 ELSE x

RoundTripDone == fnOp = "hexToRgb" /\ fnDone /\ fnPrev # <<>>

\* C10: hexToRgb(rgbToHex(r, g, b)) is (clamp(r), clamp(g), clamp(b)) for
\* integers r, g, b, those below 0 and above 255 included.
C10_RoundTripClamps ==
  RoundTripDone =>
     fnRet = [ r |-> Clamp255(fnPrev[1]), g |-> Clamp255(fnPrev[2]),
               b |-> Clamp255(fnPrev[3]) ]

\* a round trip from a channel below 0, one above 255 and one in range
C10_Witness ==
  /\ RoundTripDone
  /\ fnPrev[1] < 0 /\ fnPrev[2] > 255 /\ fnPrev[3] = 128
  /\ fnRet = [r |-> 0, g |-> 255, b |-> 128]

\* C3: per canvas at most one frame callback is pending at any moment, every
\* pending callback of the mounted canvas belongs to the newest loop, and no
\* loop other than the newest ever draws.
C3_OneLiveLoop ==
  /\ \A c \in 1..osc.canvas :
       Cardinality({ cb \in osc.raf : cb.canvas = c }) <= 1
  /\ \A cb \in osc.raf : cb.loop = osc.loop
  /\ ~osc.staleDraw

\* the effect has re-run at least twice (a third loop is live) and a frame
\* of the newest loop has drawn
C3_Witness ==
  /\ osc.loop >= 3
  /\ osc.due = "none"
  /\ osc.drew # NULL
  /\ osc.drew.byFrame
  /\ osc.drew.loop = osc.loop
  /\ Cardinality(osc.raf) = 1

\* C2 (as claimed): after the pause branch of handlePlayPause has set
\* isPlaying to false, and until playback is started again, currentTime
\* keeps the value it had at that moment: no frame publishes another one.
C2_PausedClockFrozen ==
  app.paused # NULL => app.q.currentTime = app.paused.at

\* C4: after handleStop, and until playback is started again, isPlaying and
\* isCountingDown are false and the resume offset and currentTime are 0.
C4_StoppedClockIdle ==
  app.stopped =>
    /\ ~app.q.isPlaying
    /\ ~app.q.isCountingDown
    /\ app.q.startOffset = 0
    /\ app.q.currentTime = 0

\* C5: every value the time loop publishes while playing is the audio clock
\* minus the clock value recorded when the current playback was started,
\* plus the offset that playback was started at.
C5_PublishedTimeOfCurrentPlayback ==
  (app.pub # NULL /\ app.pub.playing) => app.pub.value = app.pub.expected

\* the lower-case letter of a hex digit
ToLower(ch) ==
  IF \E i \in 1..16 : UpperDigits[i] = ch
    THEN HexDigits[CHOOSE i \in 1..16 : UpperDigits[i] = ch]
    ELSE ch

\* '#' followed by the six digits of a valid string in lower case
Canonical(hex) ==
  LET body == IF hex[1] = "#" THEN Tail(hex) ELSE hex
  IN <<"#">> \o [i \in 1..6 |-> ToLower(body[i])]

AdjustedAtDefaults ==
  fnOp = "adjustColor" /\ fnDone /\ fnArgs[2] = 100 /\ fnArgs[3] = 100
    /\ fnArgs[1] \in ValidHex

\* C11 as stated: adjust(hex, 100, 100) returns the very string it was given,
\* for every string hexToRgb accepts.
C11_IdentityAtDefaults ==
  AdjustedAtDefaults => fnRet = fnArgs[1]

\* C11 amended: adjust(hex, 100, 100) returns the colour it was given in the
\* form '#' plus six lower-case digits, for every string hexToRgb accepts, so
\* it returns the input string exactly when the input has that form.
C11_IdentityUpToForm ==
  AdjustedAtDefaults =>
    /\ fnRet = Canonical(fnArgs[1])
    /\ (fnRet = fnArgs[1]) <=> (fnArgs[1] = Canonical(fnArgs[1]))

\* an upper-case string without '#' went through adjust at the defaults
C11_Witness ==
  /\ AdjustedAtDefaults
  /\ fnArgs[1] = <<"F","F","0","F","8","0">>
  /\ fnRet = <<"#","f","f","0","f","8","0">>

Adjusted == fnOp = "adjustColor" /\ fnDone /\ fnArgs[1] \in ValidHex

GREY_128 == <<"#","8","0","8","0","8","0">>
GREY_100 == <<"#","6","4","6","4","6","4">>
GREY_147 == <<"#","9","3","9","3","9","3">>

\* the three channels of a parsed colour, each moved by d and clamped
Shifted(rgb, d) ==
  [ r |-> Clamp255(rgb.r + d), g |-> Clamp255(rgb.g + d), b |-> Clamp255(rgb.b + d) ]

\* C12: adjust applies the contrast about 128, then adds (brightness - 100)
\* * 1.5, then clamps: the result is always '#' and six digits (each channel
\* in 0..255); at contrast 100 every channel moves by (brightness - 100) *
\* 1.5, a half rounded up, and stops at 0 and 255, so '#808080' gives
\* '#ffffff' at brightness 200 and '#000000' at brightness 0; and '#646464'
\* at brightness 150 and
\* contrast 200 gives '#939393' (contrast first: (100 - 128) * 2 + 128 + 75).
C12_AdjustContrastBrightnessClamp ==
  Adjusted =>
    /\ Len(fnRet) = 7 /\ fnRet[1] = "#"
    /\ \A i \in 2..7 : \E k \in 1..16 : HexDigits[k] = fnRet[i]
    /\ (fnArgs[3] = 100) =>
         hexToRgb(fnRet) = Shifted(hexToRgb(fnArgs[1]), ((fnArgs[2] - 100) * 3 + 1) \div 2)
    /\ (fnArgs = <<GREY_128, 200, 100>>) => fnRet = WHITE
    /\ (fnArgs = <<GREY_128, 0, 100>>) => fnRet = BLACK
    /\ (fnArgs = <<GREY_100, 150, 200>>) => fnRet = GREY_147

\* the call in which contrast and brightness both act and nothing is clamped
C12_Witness ==
  Adjusted /\ fnArgs = <<GREY_100, 150, 200>> /\ fnRet = GREY_147

LuminanceDone == fnOp = "getHexLuminance" /\ fnDone

\* C13: raising one channel by 1, the other two fixed, raises the luminance;
\* and a colour is classified dark exactly when 0.2126 r + 0.7152 g +
\* 0.0722 b is below 128.
C13_LuminanceIncreasing ==
  /\ (LuminanceDone /\ fnPrev # <<>>) => fnRet > fnPrev[3]
  /\ (LuminanceDone /\ fnArgs[1] \in ValidHex) =>
       LET rgb == hexToRgb(fnArgs[1])
       IN /\ fnRet >= 0 /\ fnRet <= 255 * LUM_SCALE
          /\ IsDark(fnRet) <=> ExactLuminance(rgb) < 128 * LUM_SCALE

\* C18: for a string that is not six hex digits with an optional leading
\* '#', hexToRgb returns null, getHexLuminance returns 0 and adjustColor
\* returns the string it was given, whatever the brightness and contrast.
C18_MalformedColourAbsorbed ==
  (fnDone /\ fnOp \in {"hexToRgb", "getHexLuminance", "adjustColor"}
     /\ fnArgs[1] \in MalformedHex) =>
    CASE fnOp = "hexToRgb"        -> fnRet = NULL
      [] fnOp = "getHexLuminance" -> fnRet = 0
      [] fnOp = "adjustColor"     -> fnRet = fnArgs[1]

\* adjustColor was given seven digits and a brightness that would change a
\* colour
C18_Witness ==
  /\ fnDone
  /\ fnOp = "adjustColor"
  /\ fnArgs = << <<"#","1","2","3","4","5","6","7">>, 200, 50 >>
  /\ fnRet = fnArgs[1]

RollDrawn == fnOp = "drawPianoRoll" /\ fnDone

\* the rectangles a picture holds for the note at position i of the list
RectsOf(picture, i) ==
  { k \in 1..Len(picture.rects) : picture.rects[k].i = i }

\* C14: for every note painted, colorIdx is a valid index into the palette,
\* the fill comes from that entry, and a note painted on two frames has the
\* same colorIdx on both.
C14_ColorIndexValid ==
  RollDrawn =>
    /\ \A k \in 1..Len(fnRet.rects) :
         LET r == fnRet.rects[k]
         IN /\ r.colorIdx >= 0 /\ r.colorIdx < Len(fnArgs.palette)
            /\ r.shadowBlur = 15 => r.shadowColor = fnArgs.palette[r.colorIdx + 1]
            /\ r.shadowBlur = 4 => r.fillStyle = fnArgs.palette[r.colorIdx + 1]
    /\ fnPrev # <<>> =>
         \A k \in 1..Len(fnRet.rects), j \in 1..Len(fnPrev[2].rects) :
           fnRet.rects[k].i = fnPrev[2].rects[j].i =>
             fnRet.rects[k].colorIdx = fnPrev[2].rects[j].colorIdx

\* a note with a very large track and channel was painted on two frames from
\* a palette of three colours
C14_Witness ==
  /\ RollDrawn
  /\ fnPrev # <<>>
  /\ Len(fnArgs.palette) = 3
  /\ \E k \in 1..Len(fnRet.rects), j \in 1..Len(fnPrev[2].rects) :
       /\ fnRet.rects[k].i = fnPrev[2].rects[j].i
       /\ fnArgs.notes[fnRet.rects[k].i].track = Present(HUGE)
       /\ fnRet.rects[k].colorIdx = 2

SCENARIO_NOTE ==
  [ note |-> 60, velocity |-> 100, startTime |-> 0, duration |-> 100,
    track |-> Present(0), channel |-> Present(0) ]

\* the rectangle painted with the glow of an active note: shadow blur 15,
\* one pixel larger on every side
Glows(r) == r.shadowBlur = 15 /\ r.rectX = r.x - Num(1)

\* C15: a note is painted as active exactly when startTime <= currentTime <=
\* startTime + duration: a note inside that range, its two ends included, is
\* painted once, with the glow; a note outside it is painted, if at all,
\* without; the note {startTime 0, duration 1} at currentTime 0.5 glows at
\* the x of relativeTime -0.5.
C15_ActiveExactlyInRange ==
  RollDrawn =>
    \A i \in 1..Len(fnArgs.notes) :
      LET n == fnArgs.notes[i]
          t == fnArgs.currentTime
          inRange == n.startTime <= t /\ t <= n.startTime + n.duration
          rs == RectsOf(fnRet, i)
      IN /\ inRange => (Cardinality(rs) = 1 /\ \A k \in rs : Glows(fnRet.rects[k]))
         /\ ~inRange => \A k \in rs : ~Glows(fnRet.rects[k]) /\ fnRet.rects[k].shadowBlur = 4
         /\ (n = SCENARIO_NOTE /\ t = 50) =>
              \A k \in rs : fnRet.rects[k].x * 5 = fnArgs.size[1] * 100

\* the scenario: the one note {startTime 0, duration 1} at currentTime 0.5
C15_Witness ==
  /\ RollDrawn
  /\ fnArgs.notes = <<SCENARIO_NOTE>>
  /\ fnArgs.currentTime = 50
  /\ Len(fnRet.rects) = 1
  /\ Glows(fnRet.rects[1])

\* C16: x = 0.25 * width + (startTime - currentTime) * (width / 10): a note
\* with startTime = currentTime has x at the playhead, width * 0.25; between
\* two frames the x of a note changes by -(width / 10) times the change of
\* currentTime, so it falls whenever currentTime rises.
C16_XLinearInRelativeTime ==
  RollDrawn =>
    /\ fnRet.playhead.x * 4 = Num(fnArgs.size[1])
    /\ \A k \in 1..Len(fnRet.rects) :
         fnArgs.notes[fnRet.rects[k].i].startTime = fnArgs.currentTime =>
           fnRet.rects[k].x = fnRet.playhead.x
    /\ fnPrev # <<>> =>
         \A k \in 1..Len(fnRet.rects), j \in 1..Len(fnPrev[2].rects) :
           fnRet.rects[k].i = fnPrev[2].rects[j].i =>
             /\ (fnPrev[2].rects[j].x - fnRet.rects[k].x) * TIME_WINDOW
                  = (fnArgs.currentTime - fnPrev[1]) * fnArgs.size[1]
             /\ fnArgs.currentTime > fnPrev[1] =>
                  fnRet.rects[k].x < fnPrev[2].rects[j].x

\* a note was to the right of the playhead on one frame and is at the
\* playhead on the next, later one
C16_Witness ==
  /\ RollDrawn
  /\ fnPrev # <<>>
  /\ fnArgs.currentTime > fnPrev[1]
  /\ \E k \in 1..Len(fnRet.rects), j \in 1..Len(fnPrev[2].rects) :
       /\ fnRet.rects[k].i = fnPrev[2].rects[j].i
       /\ fnPrev[2].rects[j].x > fnPrev[2].playhead.x
       /\ fnRet.rects[k].x = fnRet.playhead.x

\* the flat line of the idle oscilloscope on a canvas of the given size
FlatLine(width, height) ==
  << <<0, (height * SUBPIXEL) \div 2>>, <<width * SUBPIXEL, (height * SUBPIXEL) \div 2>> >>

\* C17: a draw call made while isPlaying is false or without an analyser
\* leaves a canvas that shows the background colour of the call and one path
\* only, the line from (0, height/2) to (width, height/2) in the colour of the
\* call, and reads no samples, whatever the canvas showed before
C17_IdleDrawsFlatLine ==
  (fnOp = "drawOscilloscope" /\ fnDone
     /\ (fnArgs.analyser = NULL \/ ~fnArgs.isPlaying))
    => /\ fnRet.canvas.background = fnArgs.backgroundColor
       /\ Len(fnRet.canvas.paths) = 1
       /\ fnRet.canvas.paths[1].points = FlatLine(fnArgs.size[1], fnArgs.size[2])
       /\ fnRet.canvas.paths[1].strokeStyle = fnArgs.color
       /\ ~fnRet.sampled

\* an idle draw on a canvas that showed a waveform in other colours
C17_Witness ==
  /\ fnOp = "drawOscilloscope" /\ fnDone
  /\ fnArgs.analyser # NULL /\ ~fnArgs.isPlaying
  /\ fnPrev # <<>>
  /\ Len(fnPrev[1].paths) = 1
  /\ Len(fnPrev[1].paths[1].points) > 2
  /\ fnPrev[1].background # fnArgs.backgroundColor
  /\ fnPrev[1].paths[1].strokeStyle # fnArgs.color
  /\ Len(fnRet.canvas.paths) = 1

\* ascending by startTime
IsSorted(list) ==
  \A k \in 1..(Len(list) - 1) : list[k].startTime <= list[k + 1].startTime

\* the notes of a file, whatever their order
FileNotes(file) ==
  LET all == AllNotesFrom(file.tracks, 1) IN
  [ n \in { all[k] : k \in 1..Len(all) } |-> Cardinality({ k \in 1..Len(all) : all[k] = n }) ]

ListNotes(list) ==
  [ n \in { list[k] : k \in 1..Len(list) } |-> Cardinality({ k \in 1..Len(list) : list[k] = n }) ]

\* C19: the note list is sorted ascending by startTime in every state, the
\* first synthetic list included; after a load it is exactly the list that
\* parseMidi returned for the file, with nothing left of the list before: the
\* notes of the file when the file can be parsed, and a synthetic list of the
\* full length when it cannot
C19_NotesSortedByStartTime ==
  midi # NULL =>
    /\ IsSorted(midi.notes)
    /\ midi.returned # NULL =>
         /\ midi.notes = midi.returned
         /\ midi.chosen.valid => ListNotes(midi.notes) = FileNotes(midi.chosen)
         /\ ~midi.chosen.valid => midi.notes \in generateMockNotes

\* a file whose tracks interleave was loaded over another list
C19_Witness ==
  /\ midi # NULL
  /\ midi.returned # NULL /\ midi.chosen.valid
  /\ Len(midi.chosen.tracks) = 2
  /\ ~IsSorted(AllNotesFrom(midi.chosen.tracks, 1))
  /\ midi.nReads = 2 /\ midi.reads = {}
  /\ Len(midi.notes) = 4

\* a delayed start is accepted: the counting flag is raised, or a countdown
\* under way is set back
DelayedStartAccepted ==
  \/ ~app.q.isCountingDown /\ app'.q.isCountingDown
  \/ app'.q.countdown > app.q.countdown

\* the steps of the countdown: a delayed start is accepted only when
\* isPlaying is false and sets the countdown to 3, and the countdown changes
\* in no other way than down by one
C20_CountdownSteps ==
  /\ DelayedStartAccepted => ~app.q.isPlaying /\ app'.q.countdown = 3
  /\ app'.q.countdown # app.q.countdown
       => app'.q.countdown = 3 \/ app'.q.countdown = app.q.countdown - 1

\* the starts the countdown effect makes: at countdown 0 only, with the
\* counting flag cleared, and not after Stop was pressed during the countdown
C20_CountdownStarts ==
  app.cdStart # NULL =>
    /\ app.cdStart.countdown = 0
    /\ ~app.cdStart.counting
    /\ ~(app.cdStart.afterStop /\ app.cdStart.sounds)

\* Stop pressed during the countdown cancels it: with nothing left to
\* render the counting flag is down and no timeout is pending
C20_StopCancels ==
  (app.cdStopped /\ app.q = app.s /\ app.due = {})
    => ~app.s.isCountingDown /\ app.timer = -1

\* C20: a delayed start is accepted only when not playing and sets the
\* countdown to 3; the countdown goes down by one at a time; the countdown
\* effect starts playback only when the countdown is 0 and then clears the
\* counting flag; after Stop was pressed during the countdown the countdown
\* is cancelled and the countdown effect does not start playback
C20_DelayedStart ==
  /\ [][C20_CountdownSteps]_vars
  /\ [](app # NULL => C20_CountdownStarts /\ C20_StopCancels)

\* the pixels of a picture in raster order, from 0, and their buckets
PixelCount == DataLength \div BYTES_PER_PIXEL

PixelAt(data, k) ==
  << data[k * BYTES_PER_PIXEL], data[k * BYTES_PER_PIXEL + 1], data[k * BYTES_PER_PIXEL + 2] >>

BucketOf(pixel) == << Quantize(pixel[1]), Quantize(pixel[2]), Quantize(pixel[3]) >>

\* for each picture: its buckets with the number of their pixels and the
\* place of their first pixel
Census ==
  [ img \in Images |->
      LET data == ImageData(img)
          bucketAt == [ k \in 0..(PixelCount - 1) |-> BucketOf(PixelAt(data, k)) ]
          buckets == { bucketAt[k] : k \in 0..(PixelCount - 1) }
      IN [ key \in buckets |->
             LET at == { k \in 0..(PixelCount - 1) : bucketAt[k] = key }
             IN [ count |-> Cardinality(at),
                  first |-> CHOOSE k \in at : \A j \in at : k <= j ] ] ]

\* the buckets of a picture with the highest pixel count
MostFrequent(img) ==
  { key \in DOMAIN Census[img] :
      \A other \in DOMAIN Census[img] : Census[img][other].count <= Census[img][key].count }

\* a finished extraction that read the picture
Extracted ==
  /\ fnOp = "generateThemeFromImage" /\ fnDone
  /\ fnArgs[1] # NULL /\ fnArgs[4] = "ok"

\* the background the extraction gives when the raw dominant colour is pixel
HexOfPixel(pixel) == rgbToHex(Num(pixel[1]), Num(pixel[2]), Num(pixel[3]))

\* C21 (as claimed): when one bucket is the most frequent, the raw dominant
\* colour is the value of the first pixel in raster order that falls in that
\* bucket, so that the background of the theme is that value adjusted
C21_DominantIsFirstSeen ==
  (Extracted /\ Cardinality(MostFrequent(fnArgs[1])) = 1)
    => LET key == CHOOSE k \in MostFrequent(fnArgs[1]) : TRUE
           first == PixelAt(ImageData(fnArgs[1]), Census[fnArgs[1]][key].first)
       IN fnRet.value.background = adjustColor(HexOfPixel(first), fnArgs[2], fnArgs[3])

\* the bucket of a colour string
BucketOfHex(hex) ==
  LET rgb == hexToRgb(hex) IN BucketOf(<<rgb.r, rgb.g, rgb.b>>)

\* C22 (as claimed): when several buckets share the highest pixel count, the
\* dominant colour lies in the one of them whose first pixel comes earliest
\* in raster order.  Read off the background at brightness 100 and contrast
\* 100, where the adjustment leaves the colour as it is
C22_TieGoesToFirstEncountered ==
  (Extracted /\ Cardinality(MostFrequent(fnArgs[1])) >= 2
     /\ fnArgs[2] = 100 /\ fnArgs[3] = 100)
    => LET tied == MostFrequent(fnArgs[1])
           earliest == CHOOSE k \in tied :
                         \A j \in tied : Census[fnArgs[1]][k].first <= Census[fnArgs[1]][j].first
       IN BucketOfHex(fnRet.value.background) = earliest

\* every 25th pixel of a picture in raster order, from 0
SAMPLE_EVERY == ACCENT_STRIDE \div BYTES_PER_PIXEL

SampleHex(img, k) == HexOfPixel(PixelAt(ImageData(img), k * SAMPLE_EVERY))

\* for each picture: the distinct sampled colours in the order of their
\* first occurrence
Accents ==
  [ img \in Images |->
      LET n == (PixelCount + SAMPLE_EVERY - 1) \div SAMPLE_EVERY
          hex == [ k \in 0..(n - 1) |-> SampleHex(img, k) ]
          firsts == { k \in 0..(n - 1) : \A j \in 0..(k - 1) : hex[j] # hex[k] }
      IN [ m \in 1..Cardinality(firsts) |->
             hex[CHOOSE k \in firsts : Cardinality({ j \in firsts : j < k }) = m - 1] ] ]

\* C23: the tracks of an extracted theme are the first five distinct colours
\* sampled at every 25th pixel, in the order of their first occurrence, each
\* adjusted with brightness 150 when the background of the theme is dark
\* (its luminance is below 128) and 50 when it is light and with the
\* contrast of the call (a single accent is
\* followed by the padding colour); scope and text are the first track
C23_AccentsSampledAndAdjusted ==
  Extracted =>
    LET theme == fnRet.value
        raw == Accents[fnArgs[1]]
        kept == IF Len(raw) < MAX_TRACKS THEN Len(raw) ELSE MAX_TRACKS
        skew == IF DarkByValue(theme.background) THEN 150 ELSE 50
    IN /\ Len(theme.tracks) = (IF kept < 2 THEN 2 ELSE kept)
       /\ \A m \in 1..kept : theme.tracks[m] = adjustColor(raw[m], skew, fnArgs[3])
       /\ theme.scope = theme.tracks[1]
       /\ theme.text = theme.tracks[1]

\* the rectangle [x, x + w] of the note at position i of the list on the
\* frame drawn last, in hundredths of a pixel
RectLeft(i) ==
  (Num(fnArgs.size[1]) \div 4)
    + (fnArgs.notes[i].startTime - fnArgs.currentTime) * (fnArgs.size[1] \div TIME_WINDOW)

RectWidth(i) ==
  LET long == fnArgs.notes[i].duration * (fnArgs.size[1] \div TIME_WINDOW)
  IN IF long > Num(3) THEN long ELSE Num(3)

\* the note at position i was painted once, as the rectangle [x, x + w], one
\* pixel larger on every side while the note is active
PaintedAsRect(i) ==
  /\ Cardinality(RectsOf(fnRet, i)) = 1
  /\ \A k \in RectsOf(fnRet, i) :
       LET r == fnRet.rects[k]
       IN IF r.shadowBlur = 15
            THEN r.rectX = RectLeft(i) - Num(1) /\ r.rectW = RectWidth(i) + Num(2)
            ELSE r.rectX = RectLeft(i) /\ r.rectW = RectWidth(i)

\* C24 (as claimed): a note is skipped exactly when [x, x + w] lies entirely
\* outside [-100, width + 100]; a note whose rectangle touches or overlaps
\* that interval is painted, with w = max(duration * width / 10, 3), which is
\* 3 for a note of duration 0
C24_CulledOutsideClosedMargin ==
  RollDrawn =>
    \A i \in 1..Len(fnArgs.notes) :
      LET outside == \/ RectLeft(i) + RectWidth(i) < Num(-100)
                     \/ RectLeft(i) > Num(fnArgs.size[1]) + Num(100)
      IN /\ outside => RectsOf(fnRet, i) = {}
         /\ ~outside => PaintedAsRect(i)
         /\ fnArgs.notes[i].duration = 0 => RectWidth(i) = Num(3)

\* C24 (amended): a note is skipped exactly when x + w <= -100 or
\* x >= width + 100, so a rectangle that only touches -100 or width + 100 is
\* skipped too; every other note is painted, with
\* w = max(duration * width / 10, 3), which is 3 for a note of duration 0
C24_CulledOutsideOpenMargin ==
  RollDrawn =>
    \A i \in 1..Len(fnArgs.notes) :
      LET outside == \/ RectLeft(i) + RectWidth(i) <= Num(-100)
                     \/ RectLeft(i) >= Num(fnArgs.size[1]) + Num(100)
      IN /\ outside => RectsOf(fnRet, i) = {}
         /\ ~outside => PaintedAsRect(i)
         /\ fnArgs.notes[i].duration = 0 => RectWidth(i) = Num(3)

\* one frame with a note whose rectangle ends at -100 and is skipped, and a
\* note in the margin left of the canvas that is painted
C24_Witness ==
  /\ RollDrawn
  /\ \E i \in 1..Len(fnArgs.notes) :
       /\ RectLeft(i) + RectWidth(i) = Num(-100)
       /\ RectsOf(fnRet, i) = {}
  /\ \E k \in 1..Len(fnRet.rects) :
       /\ fnRet.rects[k].rectX + fnRet.rects[k].rectW < 0
       /\ fnRet.rects[k].rectX + fnRet.rects[k].rectW > Num(-100)

\* C25 (as claimed): at most one source node sounds at any time, whatever
\* the sequence of Play, Pause, delayed start and Stop: every start of
\* playback has stopped the source started before it
C25_OneSourceSounding ==
  app # NULL => Cardinality(app.sounding) <= 1

\* Pause stores as resume offset the time that was published last
C26_OffsetIsPausedTime ==
  app.paused # NULL => app.paused.offset = app.paused.at

\* the start after a pause plays from the offset the pause stored
C26_RestartAtOffset ==
  app.resumed # NULL => app.resumed.offset = app.resumed.stored

\* the first time published after the resume is not smaller than the time
\* shown while paused
C26_NoStepBack ==
  (app.resumed # NULL /\ app.resumed.first # NULL)
    => app.resumed.first.t >= app.resumed.shown

\* C26 (as claimed): Pause followed by Play resumes where playback was
\* paused: the offset Pause stores is the currentTime published last, the
\* source is restarted at that offset, and the first currentTime published
\* after the resume is not smaller than the one shown while paused
C26_ResumeWherePaused ==
  app # NULL => C26_OffsetIsPausedTime /\ C26_RestartAtOffset /\ C26_NoStepBack

\* C27: in mode 'image' a cover image is loaded; what the last render
\* handed to the renderers is DEFAULT_THEME in mode 'normal' and the derived
\* theme that render read in mode 'image', also when extractions have
\* completed, wait for their render or are under way; the mode and the
\* image of the last render are those set; extractions were started only
\* with an image loaded
C27_ImageModeHasImage ==
  /\ settings.themeMode = "image" => imageSrc # NULL
  /\ rendered.settings = settings /\ rendered.imageSrc = imageSrc
  /\ settings.themeMode = "normal" => HandedDown(DEFAULT_THEME)
  /\ settings.themeMode = "image" => HandedDown(rendered.generatedTheme)
  /\ issued # <<>> => imageSrc # NULL

\* back in mode 'normal' with a cover loaded: the theme of one extraction
\* was rendered, the result of a second one waits for its render and a
\* third is still under way
C27_Witness ==
  /\ settings.themeMode = "normal"
  /\ imageSrc # NULL
  /\ rendered.generatedTheme # DEFAULT_THEME
  /\ generatedTheme # rendered.generatedTheme
  /\ generatedTheme # DEFAULT_THEME
  /\ inflight # {}
  /\ HandedDown(DEFAULT_THEME)

====
